---- MODULE Spec2Model ----
(***************************************************************************)
(* go-sqlparams: ParseSQL rewrites :name placeholders of an SQL text into  *)
(* the placeholders of a database, skipping literals, quoted identifiers,  *)
(* comments and casts.  A text is a sequence of one-byte strings; offsets  *)
(* are 0-based as in the Go source.                                        *)
(***************************************************************************)
EXTENDS Integers, Sequences, FiniteSets, TLC

VARIABLES calls

vars == <<calls>>

(***************************************************************************)
(* Bytes and their classes.  The model works on a sample of the byte       *)
(* values: some of a-z, of A-Z, of 0-9, the white space and every byte the *)
(* scanner treats specially, and one byte above 0x7F.  BT stands for the    *)
(* backtick.                                                               *)
(***************************************************************************)
BT == "BT"

\* A byte above 0x7F: 0xE9, a letter when converted to a rune by itself.
HiE9 == "0xE9"

LowerAZ == {"a", "b", "q"}

UpperAZ == {"Q"}

Digits09 == {"0", "1"}

SpaceBytes == {" ", "\t", "\n"}

\* The zero byte: what peek returns past the end of the text.
NUL == "NUL"

At(src, k) == src[k + 1]

Slice(src, a, b) == SubSeq(src, a + 1, b)

\* isValidIdentifierStart taking a digit for the start of a name.
isValidIdentifierStart_OrDigit(b) ==
    b \in LowerAZ \/ b \in UpperAZ \/ b = "_" \/ b \in Digits09

isValidIdentifierStart(b) == b \in LowerAZ \/ b \in UpperAZ \/ b = "_"

isValidIdentifierChar(b) ==
    \/ isValidIdentifierStart(b)
    \/ b \in Digits09
    \/ b = "."
    \/ b = "[" \/ b = "]"

\* unicode.IsLetter, unicode.IsDigit and unicode.IsSpace on the sampled bytes.
IsLetter(r) == r \in LowerAZ \cup UpperAZ \cup {HiE9}

IsDigit(r) == r \in Digits09

IsSpace(r) == r \in SpaceBytes

isLetterOrUnderscore(r) == r = "_" \/ IsLetter(r)

isLetterDigitOrUnderscore(r) == r = "_" \/ IsLetter(r) \/ IsDigit(r)

(***************************************************************************)
(* The name grammar: ident ( '.' ident | '[' digits ']' )*.  readIdent and *)
(* readDigits return the offset they stop at, or -1 for "not ok".          *)
(***************************************************************************)
RECURSIVE readIdentRest(_, _)
readIdentRest(s, i) ==
    IF i < Len(s) /\ isLetterDigitOrUnderscore(At(s, i))
    THEN readIdentRest(s, i + 1)
    ELSE i

readIdent(s, i) ==
    IF i >= Len(s) THEN -1
    ELSE IF ~isLetterOrUnderscore(At(s, i)) THEN -1
    ELSE readIdentRest(s, i + 1)

RECURSIVE readDigitsLoop(_, _)
readDigitsLoop(s, i) ==
    IF i < Len(s) /\ At(s, i) \in Digits09
    THEN readDigitsLoop(s, i + 1)
    ELSE i

\* readDigits taking an empty run of digits for an index.
readDigits_AllowEmpty(s, i) ==
    IF i >= Len(s) THEN -1 ELSE readDigitsLoop(s, i)

readDigits(s, i) ==
    IF i >= Len(s) THEN -1
    ELSE LET j == readDigitsLoop(s, i) IN IF j = i THEN -1 ELSE j

RECURSIVE isValidNameLoop(_, _)
isValidNameLoop(s, i) ==
    IF i >= Len(s) THEN TRUE
    ELSE IF At(s, i) = "."
         THEN LET j == readIdent(s, i + 1) IN
              IF j < 0 THEN FALSE ELSE isValidNameLoop(s, j)
    ELSE IF At(s, i) = "["
         THEN LET j == readDigits(s, i + 1) IN
              IF j < 0 THEN FALSE
              ELSE IF j >= Len(s) \/ At(s, j) # "]" THEN FALSE
              ELSE isValidNameLoop(s, j + 1)
    ELSE FALSE

isValidName(s) ==
    IF s = <<>> THEN FALSE
    ELSE LET j == readIdent(s, 0) IN
         IF j < 0 THEN FALSE ELSE isValidNameLoop(s, j)

(***************************************************************************)
(* The format functions of the callers: Postgres "$%d", MySQL "?", SQL     *)
(* Server "@p%d"; NilFormat is the nil function.                           *)
(***************************************************************************)
NilFormat == "nil"

FormatFuncs == {"dollar", "qmark", "atp"}

DigitOf(d) == CASE d = 0 -> "0" [] d = 1 -> "1" [] d = 2 -> "2" [] d = 3 -> "3"
                [] d = 4 -> "4" [] d = 5 -> "5" [] d = 6 -> "6" [] d = 7 -> "7"
                [] d = 8 -> "8" [] d = 9 -> "9"

RECURSIVE Itoa(_)
Itoa(k) == IF k < 10 THEN <<DigitOf(k)>> ELSE Itoa(k \div 10) \o <<DigitOf(k % 10)>>

formatFunc(f, idx) ==
    CASE f = "dollar" -> <<"$">> \o Itoa(idx)
      [] f = "qmark" -> <<"?">>
      [] f = "atp" -> <<"@", "p">> \o Itoa(idx)

(***************************************************************************)
(* parseState.  A call of ParseSQL is a record: its arguments (sqlText,    *)
(* format), its position (pc), the parseState fields, the results (ps,     *)
(* err), and three history fields: iters counts the iterations of the      *)
(* dispatch loop, spans lists the skip routines run so far with the cursor *)
(* at entry and at return, fcalls lists the arguments the format function  *)
(* was called with.                                                        *)
(***************************************************************************)
NoErr == [kind |-> "nil", name |-> <<>>, offset |-> 0]

ErrFormatParamFuncRequired ==
    [kind |-> "ErrFormatParamFuncRequired", name |-> <<>>, offset |-> 0]

ErrInvalidPlaceholderName(rawName, start) ==
    [kind |-> "ErrInvalidPlaceholderName", name |-> rawName, offset |-> start]

ZeroParsedSQL == [SQL |-> <<>>, parameters |-> <<>>, occurrences |-> <<>>]

NewParameter(name, index) == [Name |-> name, Index |-> index]

NewParsedSQLWithOccurrences(SQL, parameters, occurrences) ==
    [SQL |-> SQL, parameters |-> parameters, occurrences |-> occurrences]

NewCall(sqlText, f) ==
    [sqlText |-> sqlText, format |-> f, pc |-> "entry",
     src |-> <<>>, n |-> 0, i |-> 0,
     edits |-> <<>>, order |-> <<>>, indexOf |-> <<>>, tokens |-> <<>>,
     ps |-> ZeroParsedSQL, err |-> NoErr,
     iters |-> 0, spans |-> <<>>, fcalls |-> <<>>]

\* newParseState starting from the names and indices of the first call
\* instead of from empty ones.
newParseState_KeepNames(s) ==
    [s EXCEPT !.src = s.sqlText, !.n = Len(s.sqlText), !.i = 0,
              !.edits = <<>>, !.order = calls[1].order,
              !.indexOf = calls[1].indexOf, !.tokens = <<>>]

\* indexOf is a map from names to indices: a function on the names put in it.
newParseState(s) ==
    [s EXCEPT !.src = s.sqlText, !.n = Len(s.sqlText), !.i = 0,
              !.edits = <<>>, !.order = <<>>, !.indexOf = <<>>, !.tokens = <<>>]

MapPut(m, key, value) ==
    [x \in DOMAIN m \cup {key} |-> IF x = key THEN value ELSE m[x]]

\* getIndex allocating a new index at every call.
getIndex_AlwaysNew(s, name) ==
    [s EXCEPT !.order = Append(s.order, name),
              !.indexOf = MapPut(s.indexOf, name, Len(s.order) + 1)]

\* getIndex taking the index before the name is appended to order.
getIndex_ZeroBased(s, name) ==
    IF name \in DOMAIN s.indexOf THEN s
    ELSE [s EXCEPT !.order = Append(s.order, name),
                   !.indexOf = MapPut(s.indexOf, name, Len(s.order))]

\* getIndex returns the state after the call; the index it returns is
\* indexOf[name] of that state.
getIndex(s, name) ==
    IF name \in DOMAIN s.indexOf THEN s
    ELSE [s EXCEPT !.order = Append(s.order, name),
                   !.indexOf = MapPut(s.indexOf, name, Len(s.order) + 1)]

peek(s, k) == IF s.i + k < s.n THEN At(s.src, s.i + k) ELSE NUL

(***************************************************************************)
(* The skip routines.  Each takes the text and the cursor at entry and     *)
(* returns the cursor at return.                                           *)
(***************************************************************************)
RECURSIVE consumeSingleQuotedLoop(_, _)
consumeSingleQuotedLoop(src, i) ==
    IF i < Len(src)
    THEN LET c == At(src, i)
             i1 == i + 1
         IN IF c = "'"
            THEN IF i1 <= Len(src) THEN i1
                 ELSE IF At(src, i1) # "'" THEN i1
                 ELSE consumeSingleQuotedLoop(src, i1 + 1)
            ELSE consumeSingleQuotedLoop(src, i1)
    ELSE i

consumeSingleQuoted(src, i) == consumeSingleQuotedLoop(src, i + 1)

\* for s.i < s.n { c := s.src[s.i]; s.i++; if c == closer { goto end } }
\* The loop leaving the cursor on the closing byte instead of past it.
RECURSIVE consumeUntil_LeaveCloser(_, _, _)
consumeUntil_LeaveCloser(src, i, closer) ==
    IF i < Len(src)
    THEN IF At(src, i) = closer THEN i ELSE consumeUntil_LeaveCloser(src, i + 1, closer)
    ELSE i

RECURSIVE consumeUntil(_, _, _)
consumeUntil(src, i, closer) ==
    IF i < Len(src)
    THEN IF At(src, i) = closer THEN i + 1 ELSE consumeUntil(src, i + 1, closer)
    ELSE i

consumeDoubleQuoted(src, i) == consumeUntil(src, i + 1, "\"")

consumeBacktick(src, i) == consumeUntil(src, i + 1, BT)

consumeBracketIdent(src, i) == consumeUntil(src, i + 1, "]")

RECURSIVE consumeDashDash(_, _)
consumeDashDash(src, i) ==
    IF i < Len(src) /\ At(src, i) # "\n" THEN consumeDashDash(src, i + 1) ELSE i

consumeHashComment(src, i) == consumeDashDash(src, i + 1)

\* The second loop of the routine starts where the first stopped without a
\* match, at s.i >= s.n-1, and so never runs; both end in s.i = s.n.
RECURSIVE consumeBlockCommentLoop(_, _)
consumeBlockCommentLoop(src, i) ==
    IF i < Len(src) - 1
    THEN IF At(src, i) # "*" THEN consumeBlockCommentLoop(src, i + 1)
         ELSE IF At(src, i + 1) # "/" THEN consumeBlockCommentLoop(src, i + 1)
         ELSE i + 2
    ELSE Len(src)

\* consumeBlockComment looking for the end from the '*' of the opening on.
consumeBlockComment_Overlap(src, i) == consumeBlockCommentLoop(src, i + 1)

consumeBlockComment(src, i) == consumeBlockCommentLoop(src, i + 2)

\* strings.Index(s, sub): the least offset at which sub occurs in s, or -1.
StringsIndex(s, sub) ==
    LET hits == {k \in 0..(Len(s) - Len(sub)) : Slice(s, k, k + Len(sub)) = sub}
    IN IF hits = {} THEN -1 ELSE CHOOSE k \in hits : \A m \in hits : k <= m

\* The tag loop: the cursor after the opener's closing '$', the end of the
\* text when there is none, or -1 when a byte that cannot be in a tag is met.
RECURSIVE consumeDollarTag(_, _)
consumeDollarTag(src, i) ==
    IF i < Len(src)
    THEN LET c == At(src, i) IN
         IF c = "$" THEN i + 1
         ELSE IF c # "_" /\ ~IsLetter(c) /\ ~IsDigit(c) THEN -1
         ELSE consumeDollarTag(src, i + 1)
    ELSE i

\* consumeDollarQuoted searching for the tag without its two '$'.
consumeDollarQuoted_BareTag(src, start) ==
    LET i == consumeDollarTag(src, start + 1) IN
    IF i < 0 THEN start + 1
    ELSE IF i > Len(src) THEN Len(src)
    ELSE LET tag == Slice(src, start + 1, i - 1)
             idx == StringsIndex(Slice(src, i, Len(src)), tag)
         IN IF idx < 0 THEN Len(src) ELSE i + idx + Len(tag)

\* consumeDollarQuoted passing the rest of the text when the '$' opens no
\* tag.
consumeDollarQuoted_RejectToEnd(src, start) ==
    LET i == consumeDollarTag(src, start + 1) IN
    IF i < 0 THEN Len(src)
    ELSE IF i > Len(src) THEN Len(src)
    ELSE LET tag == Slice(src, start, i)
             idx == StringsIndex(Slice(src, i, Len(src)), tag)
         IN IF idx < 0 THEN Len(src) ELSE i + idx + Len(tag)

consumeDollarQuoted(src, start) ==
    LET i == consumeDollarTag(src, start + 1) IN
    IF i < 0 THEN start + 1
    ELSE IF i > Len(src) THEN Len(src)
    ELSE LET tag == Slice(src, start, i)
             idx == StringsIndex(Slice(src, i, Len(src)), tag)
         IN IF idx < 0 THEN Len(src) ELSE i + idx + Len(tag)

\* closeDelimOf pairing every delimiter with itself.
closeDelimOf_Same(delim) == delim

closeDelimOf(delim) ==
    CASE delim = "<" -> ">"
      [] delim = "(" -> ")"
      [] delim = "[" -> "]"
      [] delim = "{" -> "}"
      [] OTHER -> delim

RECURSIVE skipSpace(_, _)
skipSpace(src, i) ==
    IF i < Len(src) /\ IsSpace(At(src, i)) THEN skipSpace(src, i + 1) ELSE i

RECURSIVE consumeOracleQBody(_, _, _)
consumeOracleQBody(src, i, closeDelim) ==
    IF i < Len(src)
    THEN IF At(src, i) = closeDelim
         THEN IF i + 1 >= Len(src) THEN Len(src)
              ELSE IF At(src, i + 1) # "'" THEN consumeOracleQBody(src, i + 1, closeDelim)
              ELSE i + 2
         ELSE consumeOracleQBody(src, i + 1, closeDelim)
    ELSE Len(src)

\* consumeOracleQ as it was before its fix: a rejected 'q' is not passed.
consumeOracleQ_NoAdvance(src, start) ==
    IF start + 1 >= Len(src) THEN start
    ELSE IF At(src, start + 1) # "'" /\ At(src, start + 1) # " " THEN start
    ELSE LET i == skipSpace(src, start + 1) IN
         IF i >= Len(src) \/ At(src, i) # "'" THEN start + 1
         ELSE IF i + 1 >= Len(src) THEN Len(src)
         ELSE consumeOracleQBody(src, i + 2, closeDelimOf(At(src, i + 1)))

\* consumeOracleQ leaving the cursor after the whitespace it passed when no
\* quote follows that whitespace.
consumeOracleQ_RejectAfterSpace(src, start) ==
    IF start + 1 >= Len(src) THEN start + 1
    ELSE IF At(src, start + 1) # "'" /\ At(src, start + 1) # " " THEN start + 1
    ELSE LET i == skipSpace(src, start + 1) IN
         IF i >= Len(src) \/ At(src, i) # "'" THEN i
         ELSE IF i + 1 >= Len(src) THEN Len(src)
         ELSE consumeOracleQBody(src, i + 2, closeDelimOf(At(src, i + 1)))

consumeOracleQ(src, start) ==
    IF start + 1 >= Len(src) THEN start + 1
    ELSE IF At(src, start + 1) # "'" /\ At(src, start + 1) # " " THEN start + 1
    ELSE LET i == skipSpace(src, start + 1) IN
         IF i >= Len(src) \/ At(src, i) # "'" THEN start + 1
         ELSE IF i + 1 >= Len(src) THEN Len(src)
         ELSE consumeOracleQBody(src, i + 2, closeDelimOf(At(src, i + 1)))

(***************************************************************************)
(* The placeholder recogniser.                                             *)
(***************************************************************************)
RECURSIVE scanName(_, _)
scanName(src, j) ==
    IF j < Len(src) /\ isValidIdentifierChar(At(src, j)) THEN scanName(src, j + 1) ELSE j

\* consumePlaceholder recording the token of a placeholder but not its edit.
consumePlaceholder_NoEdit(s) ==
    LET start == s.i
        i1 == s.i + 1
    IN IF i1 >= s.n \/ ~isValidIdentifierStart(At(s.src, i1))
       THEN [s EXCEPT !.i = i1]
       ELSE LET j == scanName(s.src, i1)
                rawName == Slice(s.src, i1, j)
            IN IF ~isValidName(rawName)
               THEN [s EXCEPT !.i = i1, !.err = ErrInvalidPlaceholderName(rawName, start)]
               ELSE LET s1 == getIndex(s, rawName)
                        idx == s1.indexOf[rawName]
                    IN [s1 EXCEPT
                          !.tokens = Append(s1.tokens,
                                            [Name |-> rawName, Index |-> idx,
                                             Start |-> start, End |-> j,
                                             Raw |-> Slice(s.src, start, j)]),
                          !.i = j]

\* consumePlaceholder taking the start of the edit after the cursor has
\* passed the colon.
consumePlaceholder_EditAfterColon(s) ==
    LET start == s.i
        i1 == s.i + 1
    IN IF i1 >= s.n \/ ~isValidIdentifierStart(At(s.src, i1))
       THEN [s EXCEPT !.i = i1]
       ELSE LET j == scanName(s.src, i1)
                rawName == Slice(s.src, i1, j)
            IN IF ~isValidName(rawName)
               THEN [s EXCEPT !.i = i1, !.err = ErrInvalidPlaceholderName(rawName, start)]
               ELSE LET s1 == getIndex(s, rawName)
                        idx == s1.indexOf[rawName]
                    IN [s1 EXCEPT
                          !.tokens = Append(s1.tokens,
                                            [Name |-> rawName, Index |-> idx,
                                             Start |-> start, End |-> j,
                                             Raw |-> Slice(s.src, start, j)]),
                          !.edits = Append(s1.edits,
                                           [start |-> i1, end |-> j,
                                            repl |-> formatFunc(s.format, idx)]),
                          !.fcalls = Append(s1.fcalls, idx),
                          !.i = j]

\* consumePlaceholder calling the format function for the first occurrence
\* of a name only and using the same replacement for the later ones.
consumePlaceholder_FormatOnce(s) ==
    LET start == s.i
        i1 == s.i + 1
    IN IF i1 >= s.n \/ ~isValidIdentifierStart(At(s.src, i1))
       THEN [s EXCEPT !.i = i1]
       ELSE LET j == scanName(s.src, i1)
                rawName == Slice(s.src, i1, j)
            IN IF ~isValidName(rawName)
               THEN [s EXCEPT !.i = i1, !.err = ErrInvalidPlaceholderName(rawName, start)]
               ELSE LET s1 == getIndex(s, rawName)
                        idx == s1.indexOf[rawName]
                    IN [s1 EXCEPT
                          !.tokens = Append(s1.tokens,
                                            [Name |-> rawName, Index |-> idx,
                                             Start |-> start, End |-> j,
                                             Raw |-> Slice(s.src, start, j)]),
                          !.edits = Append(s1.edits,
                                           [start |-> start, end |-> j,
                                            repl |-> formatFunc(s.format, idx)]),
                          !.fcalls = IF rawName \in DOMAIN s.indexOf
                                     THEN s1.fcalls
                                     ELSE Append(s1.fcalls, idx),
                          !.i = j]

consumePlaceholder(s) ==
    LET start == s.i
        i1 == s.i + 1
    IN IF i1 >= s.n \/ ~isValidIdentifierStart(At(s.src, i1))
       THEN [s EXCEPT !.i = i1]
       ELSE LET j == scanName(s.src, i1)
                rawName == Slice(s.src, i1, j)
            IN IF ~isValidName(rawName)
               THEN [s EXCEPT !.i = i1, !.err = ErrInvalidPlaceholderName(rawName, start)]
               ELSE LET s1 == getIndex(s, rawName)
                        idx == s1.indexOf[rawName]
                    IN [s1 EXCEPT
                          !.tokens = Append(s1.tokens,
                                            [Name |-> rawName, Index |-> idx,
                                             Start |-> start, End |-> j,
                                             Raw |-> Slice(s.src, start, j)]),
                          !.edits = Append(s1.edits,
                                           [start |-> start, end |-> j,
                                            repl |-> formatFunc(s.format, idx)]),
                          !.fcalls = Append(s1.fcalls, idx),
                          !.i = j]

(***************************************************************************)
(* The results.                                                            *)
(***************************************************************************)
RECURSIVE buildSQLLoop(_, _, _, _, _)
buildSQLLoop(src, edits, k, last, b) ==
    IF k > Len(edits)
    THEN IF last < Len(src) THEN b \o Slice(src, last, Len(src)) ELSE b
    ELSE LET e == edits[k]
             b1 == IF e.start > last THEN b \o Slice(src, last, e.start) ELSE b
         IN buildSQLLoop(src, edits, k + 1, e.end, b1 \o e.repl)

\* buildSQL without its last step, the copy of the text after the last edit.
buildSQL_NoTail(s) ==
    buildSQLLoop(Slice(s.src, 0, IF s.edits = <<>> THEN 0 ELSE s.edits[Len(s.edits)].end),
                 s.edits, 1, 0, <<>>)

buildSQL(s) == buildSQLLoop(s.src, s.edits, 1, 0, <<>>)

ZeroQueryToken == [Name |-> <<>>, Index |-> 0, Start |-> 0, End |-> 0, Raw |-> <<>>]

RECURSIVE orderedTokensLoop(_, _, _)
orderedTokensLoop(s, k, ordered) ==
    IF k > Len(s.tokens) THEN ordered
    ELSE LET p == s.tokens[k] IN
         IF p.Index < 1 THEN orderedTokensLoop(s, k + 1, ordered)
         ELSE IF p.Index > Len(s.order) THEN orderedTokensLoop(s, k + 1, ordered)
         ELSE IF s.order[p.Index] # p.Name THEN orderedTokensLoop(s, k + 1, ordered)
         ELSE orderedTokensLoop(s, k + 1, [ordered EXCEPT ![p.Index] = p])

\* orderedTokens returning every token instead of one for each index.
orderedTokens_All(s) == s.tokens

orderedTokens(s) ==
    orderedTokensLoop(s, 1, [k \in 1..Len(s.order) |-> ZeroQueryToken])

\* sort.Slice by Index is not stable: it may leave the tokens in any order
\* that is sorted by Index.
SortSliceByIndex(qts) ==
    LET N == Len(qts)
        sortedPerms == {f \in [1..N -> 1..N] :
                          /\ \A a, b \in 1..N : a # b => f[a] # f[b]
                          /\ \A a, b \in 1..N : a < b => qts[f[a]].Index <= qts[f[b]].Index}
    IN {[k \in 1..N |-> qts[f[k]]] : f \in sortedPerms}

\* QueryTokens.Parameters, given the tokens as its sort left them.
QueryTokensParameters(sorted) ==
    [k \in 1..Len(sorted) |-> NewParameter(sorted[k].Name, sorted[k].Index)]

(***************************************************************************)
(* ParseSQL: the entry, one action for each branch of the dispatch loop,   *)
(* and the return.                                                         *)
(***************************************************************************)
\* ParseSQL returning the input as the SQL of its result when the format
\* function is nil.
ParseSQLEntry_EchoInput(c) ==
    /\ calls[c].pc = "entry"
    /\ calls' = [calls EXCEPT ![c] =
                   IF @.format = NilFormat
                   THEN [@ EXCEPT !.err = ErrFormatParamFuncRequired,
                                  !.ps = NewParsedSQLWithOccurrences(calls[c].sqlText, <<>>, <<>>),
                                  !.pc = "done"]
                   ELSE [newParseState(@) EXCEPT !.pc = "scan"]]

ParseSQLEntry(c) ==
    /\ calls[c].pc = "entry"
    /\ calls' = [calls EXCEPT ![c] =
                   IF @.format = NilFormat
                   THEN [@ EXCEPT !.err = ErrFormatParamFuncRequired, !.pc = "done"]
                   ELSE [newParseState(@) EXCEPT !.pc = "scan"]]

InLoop(c) == calls[c].pc = "scan" /\ calls[c].i < calls[c].n

Cur(c) == At(calls[c].src, calls[c].i)

\* One iteration that ran the skip routine kind and left the cursor at to.
Skipped(s, kind, to) ==
    [s EXCEPT !.i = to,
              !.iters = @ + 1,
              !.spans = Append(@, [kind |-> kind, start |-> s.i, end |-> to])]

DispatchDashDash(c) ==
    /\ InLoop(c) /\ Cur(c) = "-" /\ peek(calls[c], 1) = "-"
    /\ calls' = [calls EXCEPT ![c] =
                   Skipped(@, "dashdash", consumeDashDash(@.src, @.i + 2))]

DispatchHashComment(c) ==
    /\ InLoop(c) /\ Cur(c) = "#"
    /\ calls' = [calls EXCEPT ![c] =
                   Skipped(@, "hash", consumeHashComment(@.src, @.i))]

DispatchBlockComment(c) ==
    /\ InLoop(c) /\ Cur(c) = "/" /\ peek(calls[c], 1) = "*"
    /\ calls' = [calls EXCEPT ![c] =
                   Skipped(@, "block", consumeBlockComment(@.src, @.i))]

DispatchSingleQuoted(c) ==
    /\ InLoop(c) /\ Cur(c) = "'"
    /\ calls' = [calls EXCEPT ![c] =
                   Skipped(@, "single", consumeSingleQuoted(@.src, @.i))]

DispatchDoubleQuoted(c) ==
    /\ InLoop(c) /\ Cur(c) = "\""
    /\ calls' = [calls EXCEPT ![c] =
                   Skipped(@, "double", consumeDoubleQuoted(@.src, @.i))]

DispatchBacktick(c) ==
    /\ InLoop(c) /\ Cur(c) = BT
    /\ calls' = [calls EXCEPT ![c] =
                   Skipped(@, "backtick", consumeBacktick(@.src, @.i))]

DispatchBracketIdent(c) ==
    /\ InLoop(c) /\ Cur(c) = "["
    /\ calls' = [calls EXCEPT ![c] =
                   Skipped(@, "bracket", consumeBracketIdent(@.src, @.i))]

DispatchDollarQuoted(c) ==
    /\ InLoop(c) /\ Cur(c) = "$"
    /\ calls' = [calls EXCEPT ![c] =
                   Skipped(@, "dollar", consumeDollarQuoted(@.src, @.i))]

DispatchOracleQ(c) ==
    /\ InLoop(c) /\ Cur(c) \in {"q", "Q"}
    /\ calls' = [calls EXCEPT ![c] =
                   Skipped(@, "oracleq", consumeOracleQ(@.src, @.i))]

\* The cast branch passing one colon only.
DispatchCast_OneColon(c) ==
    /\ InLoop(c) /\ Cur(c) = ":" /\ peek(calls[c], 1) = ":"
    /\ calls' = [calls EXCEPT ![c] = Skipped(@, "cast", @.i + 1)]

DispatchCast(c) ==
    /\ InLoop(c) /\ Cur(c) = ":" /\ peek(calls[c], 1) = ":"
    /\ calls' = [calls EXCEPT ![c] = Skipped(@, "cast", @.i + 2)]

\* The placeholder branch returning, with the error, what was rewritten up
\* to the invalid name.
DispatchPlaceholder_PartialResult(c) ==
    /\ InLoop(c) /\ Cur(c) = ":" /\ peek(calls[c], 1) # ":"
    /\ calls[c].i + 1 < calls[c].n
    /\ isValidIdentifierStart(At(calls[c].src, calls[c].i + 1))
    /\ calls' = [calls EXCEPT ![c] =
                   LET s1 == consumePlaceholder(@) IN
                   IF s1.err # NoErr
                   THEN [s1 EXCEPT !.iters = @ + 1, !.pc = "done",
                                   !.ps = NewParsedSQLWithOccurrences(
                                              buildSQL(s1),
                                              QueryTokensParameters(orderedTokens(s1)),
                                              s1.tokens)]
                   ELSE [s1 EXCEPT !.iters = @ + 1]]

DispatchPlaceholder(c) ==
    /\ InLoop(c) /\ Cur(c) = ":" /\ peek(calls[c], 1) # ":"
    /\ calls[c].i + 1 < calls[c].n
    /\ isValidIdentifierStart(At(calls[c].src, calls[c].i + 1))
    /\ calls' = [calls EXCEPT ![c] =
                   LET s1 == consumePlaceholder(@) IN
                   IF s1.err # NoErr
                   THEN [s1 EXCEPT !.iters = @ + 1, !.pc = "done"]
                   ELSE [s1 EXCEPT !.iters = @ + 1]]

\* The bytes no case of the switch takes, and the cases that fall out of
\* the switch: a lone '-', a lone '/', a ':' that starts neither a cast nor
\* a name.
DispatchAdvance(c) ==
    /\ InLoop(c)
    /\ \/ Cur(c) \notin {"-", "#", "/", "'", "\"", BT, "[", "$", "q", "Q", ":"}
       \/ Cur(c) = "-" /\ peek(calls[c], 1) # "-"
       \/ Cur(c) = "/" /\ peek(calls[c], 1) # "*"
       \/ /\ Cur(c) = ":" /\ peek(calls[c], 1) # ":"
          /\ ~(/\ calls[c].i + 1 < calls[c].n
               /\ isValidIdentifierStart(At(calls[c].src, calls[c].i + 1)))
    /\ calls' = [calls EXCEPT ![c] = [@ EXCEPT !.i = @ + 1, !.iters = @ + 1]]

ParseSQLReturn(c) ==
    /\ calls[c].pc = "scan" /\ calls[c].i >= calls[c].n
    /\ LET s == calls[c] IN
       IF Len(s.edits) = 0
       THEN \E sorted \in SortSliceByIndex(s.tokens) :
              calls' = [calls EXCEPT ![c] =
                          [s EXCEPT !.tokens = sorted,
                                    !.ps = NewParsedSQLWithOccurrences(
                                               s.src, QueryTokensParameters(sorted), sorted),
                                    !.pc = "done"]]
       ELSE \E sorted \in SortSliceByIndex(orderedTokens(s)) :
              calls' = [calls EXCEPT ![c] =
                          [s EXCEPT !.ps = NewParsedSQLWithOccurrences(
                                               buildSQL(s), QueryTokensParameters(sorted),
                                               s.tokens),
                                    !.pc = "done"]]

(***************************************************************************)
(* ParseSQL run from its entry to its return in one piece, as a call that  *)
(* nothing interleaves with runs.                                          *)
(***************************************************************************)
\* One iteration of the dispatch loop.
ParseSQLIteration(s) ==
    LET c == At(s.src, s.i) IN
    IF c = "-" /\ peek(s, 1) = "-"
    THEN Skipped(s, "dashdash", consumeDashDash(s.src, s.i + 2))
    ELSE IF c = "#" THEN Skipped(s, "hash", consumeHashComment(s.src, s.i))
    ELSE IF c = "/" /\ peek(s, 1) = "*"
    THEN Skipped(s, "block", consumeBlockComment(s.src, s.i))
    ELSE IF c = "'" THEN Skipped(s, "single", consumeSingleQuoted(s.src, s.i))
    ELSE IF c = "\"" THEN Skipped(s, "double", consumeDoubleQuoted(s.src, s.i))
    ELSE IF c = BT THEN Skipped(s, "backtick", consumeBacktick(s.src, s.i))
    ELSE IF c = "[" THEN Skipped(s, "bracket", consumeBracketIdent(s.src, s.i))
    ELSE IF c = "$" THEN Skipped(s, "dollar", consumeDollarQuoted(s.src, s.i))
    ELSE IF c \in {"q", "Q"} THEN Skipped(s, "oracleq", consumeOracleQ(s.src, s.i))
    ELSE IF c = ":" /\ peek(s, 1) = ":" THEN Skipped(s, "cast", s.i + 2)
    ELSE IF c = ":" /\ s.i + 1 < s.n /\ isValidIdentifierStart(At(s.src, s.i + 1))
    THEN LET s1 == consumePlaceholder(s) IN
         IF s1.err # NoErr
         THEN [s1 EXCEPT !.iters = @ + 1, !.pc = "done"]
         ELSE [s1 EXCEPT !.iters = @ + 1]
    ELSE [s EXCEPT !.i = @ + 1, !.iters = @ + 1]

RECURSIVE ParseSQLLoop(_)
ParseSQLLoop(s) ==
    IF s.pc = "scan" /\ s.i < s.n THEN ParseSQLLoop(ParseSQLIteration(s)) ELSE s

\* The record of the call when it has returned.  The tokens sorted by Index
\* are in one order only: orderedTokens has one token for each index.
ParseSQLAlone(sqlText, f) ==
    IF f = NilFormat
    THEN [NewCall(sqlText, f) EXCEPT !.err = ErrFormatParamFuncRequired, !.pc = "done"]
    ELSE LET s == ParseSQLLoop([newParseState(NewCall(sqlText, f)) EXCEPT !.pc = "scan"])
         IN IF s.pc = "done" THEN s
            ELSE IF Len(s.edits) = 0
            THEN LET sorted == CHOOSE x \in SortSliceByIndex(s.tokens) : TRUE IN
                 [s EXCEPT !.tokens = sorted,
                           !.ps = NewParsedSQLWithOccurrences(
                                      s.src, QueryTokensParameters(sorted), sorted),
                           !.pc = "done"]
            ELSE LET sorted == CHOOSE x \in SortSliceByIndex(orderedTokens(s)) : TRUE IN
                 [s EXCEPT !.ps = NewParsedSQLWithOccurrences(
                                      buildSQL(s), QueryTokensParameters(sorted), s.tokens),
                           !.pc = "done"]

Next ==
    \/ \E c \in DOMAIN calls : ParseSQLEntry(c)
    \/ \E c \in DOMAIN calls : DispatchDashDash(c)
    \/ \E c \in DOMAIN calls : DispatchHashComment(c)
    \/ \E c \in DOMAIN calls : DispatchBlockComment(c)
    \/ \E c \in DOMAIN calls : DispatchSingleQuoted(c)
    \/ \E c \in DOMAIN calls : DispatchDoubleQuoted(c)
    \/ \E c \in DOMAIN calls : DispatchBacktick(c)
    \/ \E c \in DOMAIN calls : DispatchBracketIdent(c)
    \/ \E c \in DOMAIN calls : DispatchDollarQuoted(c)
    \/ \E c \in DOMAIN calls : DispatchOracleQ(c)
    \/ \E c \in DOMAIN calls : DispatchCast(c)
    \/ \E c \in DOMAIN calls : DispatchPlaceholder(c)
    \/ \E c \in DOMAIN calls : DispatchAdvance(c)
    \/ \E c \in DOMAIN calls : ParseSQLReturn(c)

(***************************************************************************)
(* The inputs.                                                             *)
(***************************************************************************)
\* Every text of at most maxLen bytes of the alphabet.
Texts(alphabet, maxLen) == UNION {[1..k -> alphabet] : k \in 0..maxLen}

AllBytes == LowerAZ \cup UpperAZ \cup Digits09 \cup SpaceBytes \cup
            {"-", "#", "/", "*", "'", "\"", BT, "[", "]", "$", ":", "_", ".",
             "<", ">", "(", ")", "=", HiE9}

\* One call of ParseSQL on one of the texts with one of the formats.
Calls(texts, formats) == \E t \in texts, f \in formats : calls = <<NewCall(t, f)>>

MaxLenAll == 2

MaxLenNames == 9

MaxLenGaps == 7

MaxLenSelectors == 5

\* Short texts of every byte, with every format and with none.
AllCalls == Calls(Texts(AllBytes, MaxLenAll), FormatFuncs \cup {NilFormat})

\* Placeholders a, b, ab, ... one after the other, casts and stray colons.
NameCalls == Calls(Texts({":", "a", "b"}, MaxLenNames), {"dollar"})

\* Placeholders with text between them, under formats whose results are
\* shorter than, as long as and longer than the placeholder.
GapCalls == Calls(Texts({":", "a", " "}, MaxLenGaps), FormatFuncs)

\* Dotted and bracketed names, well formed or not.
SelectorCalls == Calls(Texts({":", "a", ".", "[", "0", "]"}, MaxLenSelectors), {"dollar"})

Init == AllCalls \/ NameCalls \/ GapCalls \/ SelectorCalls

Spec == Init /\ [][Next]_vars

MaxPieces == 4

\* The pieces names are made of, well formed or not.
NamePieces ==
    {<<"a">>, <<"0">>, <<"_">>, <<".">>, <<"[">>, <<"]">>, <<" ">>,
     <<".", "a">>, <<".", "0">>, <<"[", "0", "]">>, <<"[", "a", "]">>, <<"[", "]">>}

RECURSIVE Concat(_)
Concat(pieces) == IF pieces = <<>> THEN <<>> ELSE Head(pieces) \o Concat(Tail(pieces))

\* A colon and then some of the pieces.
PieceCalls ==
    \E pieces \in Texts(NamePieces, MaxPieces) :
        calls = <<NewCall(<<":">> \o Concat(pieces), "dollar")>>

InitNames == AllCalls \/ SelectorCalls \/ PieceCalls

SpecNames == InitNames /\ [][Next]_vars

MaxErrorPieces == 4

\* Names, valid or made invalid by the dot after them, stray colons before
\* a digit, a space or the end, casts and quotes.
ErrorPieces ==
    {<<":", "a">>, <<":">>, <<":", ":">>, <<".">>, <<"0", "a">>, <<" ">>, <<"'">>}

ErrorCalls ==
    \E pieces \in Texts(ErrorPieces, MaxErrorPieces), f \in FormatFuncs :
        calls = <<NewCall(Concat(pieces), f)>>

InitErrors == AllCalls \/ ErrorCalls

SpecErrors == InitErrors /\ [][Next]_vars

MaxScanPieces == 5

\* Two names, casts, stray colons and text between them.
ScanPieces == {<<":", "a">>, <<":", "b">>, <<":", ":">>, <<":">>, <<" ">>, <<"a">>}

ScanCalls ==
    \E pieces \in Texts(ScanPieces, MaxScanPieces), f \in {"atp", "qmark"} :
        calls = <<NewCall(Concat(pieces), f)>>

InitScan == AllCalls \/ ScanCalls

SpecScan == InitScan /\ [][Next]_vars

MaxCallPieces == 2

\* The pieces of the texts of two calls: two names, a quote, and a dot that
\* makes the name before it invalid.
CallPieces == {<<":", "a">>, <<":", "b">>, <<"'">>, <<".">>}

\* Two calls of ParseSQL at once, each on its own text and format.
TwoCalls ==
    \E p1 \in Texts(CallPieces, MaxCallPieces), p2 \in Texts(CallPieces, MaxCallPieces) :
        \E f1 \in {"dollar", "qmark"}, f2 \in {"dollar", "qmark"} :
            calls = <<NewCall(Concat(p1), f1), NewCall(Concat(p2), f2)>>

InitTwoCalls == AllCalls \/ TwoCalls

SpecTwoCalls == InitTwoCalls /\ [][Next]_vars

MaxLenQuotes == 8

MaxLenBrackets == 6

MaxLenQuoteMix == 4

\* Quoted spans of one kind with colons and names in and around them, and
\* short texts that mix the kinds.
QuoteCalls ==
    \/ Calls(Texts({"'", ":", "a"}, MaxLenQuotes), {"atp"})
    \/ Calls(Texts({"\"", ":", "a"}, MaxLenQuotes), {"atp"})
    \/ Calls(Texts({BT, ":", "a"}, MaxLenQuotes), {"atp"})
    \/ Calls(Texts({"[", "]", ":", "a"}, MaxLenBrackets), {"atp"})
    \/ Calls(Texts({"'", "\"", BT, "[", "]", ":", "a"}, MaxLenQuoteMix), {"dollar"})

InitQuotes == AllCalls \/ QuoteCalls

SpecQuotes == InitQuotes /\ [][Next]_vars

MaxLenLines == 7

MaxLenBlocks == 8

MaxLenCommentMix == 4

\* Comments of one kind with colons and names in and after them, and short
\* texts that mix the kinds.
CommentCalls ==
    \/ Calls(Texts({"-", "\n", ":", "a"}, MaxLenLines), {"atp"})
    \/ Calls(Texts({"#", "\n", ":", "a"}, MaxLenLines), {"atp"})
    \/ Calls(Texts({"/", "*", ":", "a"}, MaxLenBlocks), {"atp"})
    \/ Calls(Texts({"-", "#", "/", "*", "\n", ":", "a"}, MaxLenCommentMix), {"dollar"})

InitComments == AllCalls \/ CommentCalls

SpecComments == InitComments /\ [][Next]_vars

MaxLenDollars == 10

MaxLenDollarMix == 5

\* Dollar quotes with the tag a or none, and short texts with other tags.
DollarCalls ==
    \/ Calls(Texts({"$", "a", ":"}, MaxLenDollars), {"atp"})
    \/ Calls(Texts({"$", "a", "0", "_", HiE9, ":", " "}, MaxLenDollarMix), {"dollar"})

InitDollars == AllCalls \/ DollarCalls

SpecDollars == InitDollars /\ [][Next]_vars

MaxLenOracleBody == 7

MaxLenOracleMix == 5

\* Oracle quotes: an opening, then every short body of the byte that
\* closes it (the fourth below), quotes, colons and names; and short texts
\* of these bytes.
OracleOpenings ==
    {<<"q", "'", "<", ">">>, <<"q", "'", "(", ")">>, <<"q", "'", "[", "]">>,
     <<"q", "'", "{", "}">>, <<"q", "'", "=", "=">>, <<"Q", "'", "<", ">">>}

OracleCalls ==
    \/ \E open \in OracleOpenings :
          \E body \in Texts({open[4], "'", ":", "a"}, MaxLenOracleBody) :
              calls = <<NewCall(SubSeq(open, 1, 3) \o body, "atp")>>
    \/ Calls(Texts({"q", "'", "<", ">", ":", "a"}, MaxLenOracleMix), {"dollar"})

InitOracle == AllCalls \/ OracleCalls

SpecOracle == InitOracle /\ [][Next]_vars

MaxLenSpaceBody == 5

MaxLenSpaceMix == 5

\* A 'q' with whitespace of each kind between it and the quote.
SpaceOpenings ==
    {<<"q", "'", "<">>, <<"q", " ", "'", "<">>, <<"q", "\t", "'", "<">>,
     <<"q", "\n", "'", "<">>, <<"Q", " ", "\t", "'", "<">>}

\* Oracle quotes with whitespace after the 'q' and every short body of the
\* closing byte, quotes, colons and names; and short texts of 'q', quotes,
\* whitespace, colons and names, where most 'q' start no quote.
SpaceCalls ==
    \/ \E open \in SpaceOpenings :
          \E body \in Texts({">", "'", ":", "a"}, MaxLenSpaceBody) :
              calls = <<NewCall(open \o body, "atp")>>
    \/ Calls(Texts({"q", "'", " ", "\t", ":", "a"}, MaxLenSpaceMix), {"dollar"})

InitSpaces == AllCalls \/ SpaceCalls

SpecSpaces == InitSpaces /\ [][Next]_vars

MaxLenCursor == 4

MaxCursorPieces == 3

\* The markers of every skip routine, opening and closing, a name, a cast
\* and a letter.
CursorPieces ==
    {<<"-", "-">>, <<"#">>, <<"\n">>, <<"/", "*">>, <<"*", "/">>, <<"'">>, <<"\"">>,
     <<BT>>, <<"[">>, <<"]">>, <<"$", "a", "$">>, <<"$", "a">>, <<"q", "'", "<">>,
     <<">", "'">>, <<"q", " ">>, <<":", "a">>, <<":", "a", ".">>, <<":", ":">>, <<"a">>}

\* Short texts of the bytes that open a span, most of them malformed, and
\* texts of a few markers of every kind.
CursorCalls ==
    \/ Calls(Texts({"q", "'", " ", "$", "/", "*", ":", "a"}, MaxLenCursor), {"dollar"})
    \/ \E pieces \in Texts(CursorPieces, MaxCursorPieces) :
          calls = <<NewCall(Concat(pieces), "atp")>>

InitCursor == AllCalls \/ CursorCalls

SpecCursor == InitCursor /\ [][Next]_vars

MaxLenTriggers == 4

\* Texts of the markers that open a span, most of them malformed.
TriggerCalls ==
    Calls(Texts({"q", "'", " ", "$", "/", "*", ":", "a"}, MaxLenTriggers), {"dollar"})

InitTriggers == AllCalls \/ TriggerCalls

\* ParseSQL is one sequential call: a step that can be taken is taken.
FairSpec == InitTriggers /\ [][Next]_vars /\ WF_vars(Next)

(***************************************************************************)
(* What one iteration of the dispatch loop does to the cursor and reads    *)
(* of the text, in order: every assignment to s.i, every byte s.src[k] it  *)
(* reads and every slice s.src[lo:hi] it takes.  Each routine below is the *)
(* routine of the same name above with these events written out.           *)
(***************************************************************************)
CursorSet(v) == [op |-> "set", lo |-> v, hi |-> v]

ByteRead(k) == [op |-> "read", lo |-> k, hi |-> k]

SliceTaken(lo, hi) == [op |-> "slice", lo |-> lo, hi |-> hi]

\* peek(k): the byte is read only when its offset is below s.n.
peekTrace(src, i, k) == IF i + k < Len(src) THEN <<ByteRead(i + k)>> ELSE <<>>

\* The loop of consumeSingleQuoted from cursor i.
RECURSIVE consumeSingleQuotedLoopTrace(_, _)
consumeSingleQuotedLoopTrace(src, i) ==
    IF i < Len(src)
    THEN <<ByteRead(i), CursorSet(i + 1)>>
         \o (IF At(src, i) = "'"
             THEN IF i + 1 <= Len(src) THEN <<>>
                  ELSE <<ByteRead(i + 1)>>
                       \o (IF At(src, i + 1) # "'" THEN <<>>
                           ELSE <<CursorSet(i + 2)>>
                                \o consumeSingleQuotedLoopTrace(src, i + 2))
             ELSE consumeSingleQuotedLoopTrace(src, i + 1))
    ELSE <<>>

consumeSingleQuotedTrace(src, start) ==
    <<CursorSet(start + 1)>> \o consumeSingleQuotedLoopTrace(src, start + 1)

\* The loop shared by consumeDoubleQuoted, consumeBacktick and
\* consumeBracketIdent from cursor i.
RECURSIVE consumeUntilTrace(_, _, _)
consumeUntilTrace(src, i, closer) ==
    IF i < Len(src)
    THEN <<ByteRead(i), CursorSet(i + 1)>>
         \o (IF At(src, i) = closer THEN <<>> ELSE consumeUntilTrace(src, i + 1, closer))
    ELSE <<>>

consumeDoubleQuotedTrace(src, start) ==
    <<CursorSet(start + 1)>> \o consumeUntilTrace(src, start + 1, "\"")

consumeBacktickTrace(src, start) ==
    <<CursorSet(start + 1)>> \o consumeUntilTrace(src, start + 1, BT)

consumeBracketIdentTrace(src, start) ==
    <<CursorSet(start + 1)>> \o consumeUntilTrace(src, start + 1, "]")

\* consumeDashDash from cursor i: the byte is read only when i < s.n.
RECURSIVE consumeDashDashTrace(_, _)
consumeDashDashTrace(src, i) ==
    IF i < Len(src)
    THEN <<ByteRead(i)>>
         \o (IF At(src, i) # "\n"
             THEN <<CursorSet(i + 1)>> \o consumeDashDashTrace(src, i + 1)
             ELSE <<>>)
    ELSE <<>>

consumeHashCommentTrace(src, start) ==
    <<CursorSet(start + 1)>> \o consumeDashDashTrace(src, start + 1)

\* The first loop of consumeBlockComment running while s.i < s.n, one byte
\* too far.
RECURSIVE consumeBlockCommentLoopTrace_ToEnd(_, _)
consumeBlockCommentLoopTrace_ToEnd(src, i) ==
    IF i < Len(src)
    THEN <<ByteRead(i)>>
         \o (IF At(src, i) # "*"
             THEN <<CursorSet(i + 1)>> \o consumeBlockCommentLoopTrace_ToEnd(src, i + 1)
             ELSE <<ByteRead(i + 1)>>
                  \o (IF i + 1 >= Len(src) \/ At(src, i + 1) # "/"
                      THEN <<CursorSet(i + 1)>>
                           \o consumeBlockCommentLoopTrace_ToEnd(src, i + 1)
                      ELSE <<CursorSet(i + 2)>>))
    ELSE <<CursorSet(Len(src))>>

\* The first loop of consumeBlockComment from cursor i.  When it ends
\* without "*/" the second loop, which has the same condition, does not
\* run, and s.i = s.n.
RECURSIVE consumeBlockCommentLoopTrace(_, _)
consumeBlockCommentLoopTrace(src, i) ==
    IF i < Len(src) - 1
    THEN <<ByteRead(i)>>
         \o (IF At(src, i) # "*"
             THEN <<CursorSet(i + 1)>> \o consumeBlockCommentLoopTrace(src, i + 1)
             ELSE <<ByteRead(i + 1)>>
                  \o (IF At(src, i + 1) # "/"
                      THEN <<CursorSet(i + 1)>> \o consumeBlockCommentLoopTrace(src, i + 1)
                      ELSE <<CursorSet(i + 2)>>))
    ELSE <<CursorSet(Len(src))>>

consumeBlockCommentTrace(src, start) ==
    <<CursorSet(start + 2)>> \o consumeBlockCommentLoopTrace(src, start + 2)

\* The tag loop of consumeDollarQuoted from cursor i.
RECURSIVE consumeDollarTagTrace(_, _, _)
consumeDollarTagTrace(src, i, start) ==
    IF i < Len(src)
    THEN LET c == At(src, i) IN
         <<ByteRead(i)>>
         \o (IF c = "$" THEN <<CursorSet(i + 1)>>
             ELSE IF c # "_" /\ ~IsLetter(c) /\ ~IsDigit(c) THEN <<CursorSet(start + 1)>>
             ELSE <<CursorSet(i + 1)>> \o consumeDollarTagTrace(src, i + 1, start))
    ELSE <<>>

\* consumeDollarQuoted leaving the cursor on the '$' when it opens no tag.
consumeDollarQuotedTrace_RejectToStart(src, start) ==
    LET i == consumeDollarTag(src, start + 1) IN
    <<CursorSet(start + 1)>>
    \o consumeDollarTagTrace(src, start + 1, start)
    \o (IF i < 0 THEN <<CursorSet(start)>>
        ELSE IF i > Len(src) THEN <<CursorSet(Len(src))>>
        ELSE LET tag == Slice(src, start, i)
                 idx == StringsIndex(Slice(src, i, Len(src)), tag)
             IN <<SliceTaken(start, i), SliceTaken(i, Len(src))>>
                \o (IF idx < 0 THEN <<CursorSet(Len(src))>>
                    ELSE <<CursorSet(i + idx + Len(tag))>>))

consumeDollarQuotedTrace(src, start) ==
    LET i == consumeDollarTag(src, start + 1) IN
    <<CursorSet(start + 1)>>
    \o consumeDollarTagTrace(src, start + 1, start)
    \o (IF i < 0 THEN <<>>
        ELSE IF i > Len(src) THEN <<CursorSet(Len(src))>>
        ELSE LET tag == Slice(src, start, i)
                 idx == StringsIndex(Slice(src, i, Len(src)), tag)
             IN <<SliceTaken(start, i), SliceTaken(i, Len(src))>>
                \o (IF idx < 0 THEN <<CursorSet(Len(src))>>
                    ELSE <<CursorSet(i + idx + Len(tag))>>))

\* The whitespace loop of consumeOracleQ from cursor i.
RECURSIVE skipSpaceTrace(_, _)
skipSpaceTrace(src, i) ==
    IF i < Len(src)
    THEN <<ByteRead(i)>>
         \o (IF IsSpace(At(src, i))
             THEN <<CursorSet(i + 1)>> \o skipSpaceTrace(src, i + 1)
             ELSE <<>>)
    ELSE <<>>

\* The body loop of consumeOracleQ from cursor i.
RECURSIVE consumeOracleQBodyTrace(_, _, _)
consumeOracleQBodyTrace(src, i, closeDelim) ==
    IF i < Len(src)
    THEN <<ByteRead(i)>>
         \o (IF At(src, i) = closeDelim
             THEN IF i + 1 >= Len(src) THEN <<CursorSet(Len(src))>>
                  ELSE <<ByteRead(i + 1)>>
                       \o (IF At(src, i + 1) # "'"
                           THEN <<CursorSet(i + 1)>>
                                \o consumeOracleQBodyTrace(src, i + 1, closeDelim)
                           ELSE <<CursorSet(i + 2)>>)
             ELSE <<CursorSet(i + 1)>> \o consumeOracleQBodyTrace(src, i + 1, closeDelim))
    ELSE <<CursorSet(Len(src))>>

consumeOracleQTrace(src, start) ==
    IF start + 1 >= Len(src) THEN <<CursorSet(start + 1)>>
    ELSE <<ByteRead(start + 1)>>
         \o (IF At(src, start + 1) # "'" /\ At(src, start + 1) # " "
             THEN <<CursorSet(start + 1)>>
             ELSE LET i == skipSpace(src, start + 1) IN
                  <<CursorSet(start + 1)>>
                  \o skipSpaceTrace(src, start + 1)
                  \o (IF i >= Len(src) THEN <<CursorSet(start + 1)>>
                      ELSE <<ByteRead(i)>>
                           \o (IF At(src, i) # "'" THEN <<CursorSet(start + 1)>>
                               ELSE <<CursorSet(i + 1)>>
                                    \o (IF i + 1 >= Len(src) THEN <<CursorSet(Len(src))>>
                                        ELSE <<ByteRead(i + 1), CursorSet(i + 2)>>
                                             \o consumeOracleQBodyTrace(
                                                    src, i + 2,
                                                    closeDelimOf(At(src, i + 1)))))))

\* The name loop of consumePlaceholder from j.
RECURSIVE scanNameTrace(_, _)
scanNameTrace(src, j) ==
    IF j < Len(src)
    THEN <<ByteRead(j)>>
         \o (IF isValidIdentifierChar(At(src, j)) THEN scanNameTrace(src, j + 1) ELSE <<>>)
    ELSE <<>>

consumePlaceholderTrace(src, start) ==
    LET i1 == start + 1
        j == scanName(src, i1)
    IN <<CursorSet(i1)>>
       \o (IF i1 >= Len(src) THEN <<>>
           ELSE <<ByteRead(i1)>>
                \o (IF ~isValidIdentifierStart(At(src, i1)) THEN <<>>
                    ELSE scanNameTrace(src, i1)
                         \o <<SliceTaken(i1, j)>>
                         \o (IF ~isValidName(Slice(src, i1, j)) THEN <<>>
                             ELSE <<SliceTaken(start, j), CursorSet(j)>>)))

\* One iteration of the loop of ParseSQL from the state s, s.i < s.n.
IterationTrace(s) ==
    LET src == s.src
        i == s.i
        c == At(src, i)
        advance == <<CursorSet(i + 1)>>
    IN <<ByteRead(i)>>
       \o (CASE c = "-" ->
                  peekTrace(src, i, 1)
                  \o (IF peek(s, 1) = "-"
                      THEN <<CursorSet(i + 2)>> \o consumeDashDashTrace(src, i + 2)
                      ELSE advance)
             [] c = "#" -> consumeHashCommentTrace(src, i)
             [] c = "/" ->
                  peekTrace(src, i, 1)
                  \o (IF peek(s, 1) = "*" THEN consumeBlockCommentTrace(src, i) ELSE advance)
             [] c = "'" -> consumeSingleQuotedTrace(src, i)
             [] c = "\"" -> consumeDoubleQuotedTrace(src, i)
             [] c = BT -> consumeBacktickTrace(src, i)
             [] c = "[" -> consumeBracketIdentTrace(src, i)
             [] c = "$" -> consumeDollarQuotedTrace(src, i)
             [] c \in {"q", "Q"} -> consumeOracleQTrace(src, i)
             [] c = ":" ->
                  peekTrace(src, i, 1)
                  \o (IF peek(s, 1) = ":" THEN <<CursorSet(i + 2)>>
                      ELSE IF i + 1 < Len(src)
                      THEN <<ByteRead(i + 1)>>
                           \o (IF isValidIdentifierStart(At(src, i + 1))
                               THEN consumePlaceholderTrace(src, i)
                               ELSE advance)
                      ELSE advance)
             [] OTHER -> advance)

\* The slices buildSQL takes of the text, from the k-th edit on.
RECURSIVE buildSQLTrace(_, _, _, _)
buildSQLTrace(src, edits, k, last) ==
    IF k > Len(edits)
    THEN IF last < Len(src) THEN <<SliceTaken(last, Len(src))>> ELSE <<>>
    ELSE (IF edits[k].start > last THEN <<SliceTaken(last, edits[k].start)>> ELSE <<>>)
         \o buildSQLTrace(src, edits, k + 1, edits[k].end)

(***************************************************************************)
(* The accessors of the results: Parameter.IsIdentifier,                   *)
(* Parameters.Identifiers, Parameters.DottedSelectors, and the accessors   *)
(* of a ParsedSQL.  A call of an accessor is a record of calls with its    *)
(* receiver, its result and whether it panicked.                           *)
(***************************************************************************)
\* strings.Contains(s, sub) for a one-byte sub.
StringsContains(s, sub) == \E k \in 1..Len(s) : s[k] = sub

IsIdentifier(p) == ~StringsContains(p.Name, ".")

NewParameters(names) == [k \in 1..Len(names) |-> NewParameter(names[k], k)]

\* The loop of Identifiers in identifiers.go: ids has the length of ps from
\* the start, and the name of an identifier is stored at its own index.
RECURSIVE IdentifiersLoop(_, _, _)
IdentifiersLoop(ps, k, ids) ==
    IF k > Len(ps) THEN ids
    ELSE IF ~IsIdentifier(ps[k]) THEN IdentifiersLoop(ps, k + 1, ids)
    ELSE IdentifiersLoop(ps, k + 1, [ids EXCEPT ![k] = ps[k].Name])

\* Identifiers of identifiers.go: make([]Identifier, len(ps)) is len(ps)
\* empty strings.
Identifiers(ps) == IdentifiersLoop(ps, 1, [k \in 1..Len(ps) |-> <<>>])

\* The loop of the other copy of Identifiers: the names are appended.
RECURSIVE IdentifiersAppendLoop(_, _, _)
IdentifiersAppendLoop(ps, k, ids) ==
    IF k > Len(ps) THEN ids
    ELSE IF ~IsIdentifier(ps[k]) THEN IdentifiersAppendLoop(ps, k + 1, ids)
    ELSE IdentifiersAppendLoop(ps, k + 1, Append(ids, ps[k].Name))

IdentifiersAppend(ps) == IdentifiersAppendLoop(ps, 1, <<>>)

\* The loop of DottedSelectors in identifiers.go: selectors[i] = name on a
\* slice of length len(selectors) panics when i is not below that length.
RECURSIVE DottedSelectorsLoop(_, _, _)
DottedSelectorsLoop(ps, k, selectors) ==
    IF k > Len(ps) THEN [result |-> selectors, panicked |-> FALSE]
    ELSE IF IsIdentifier(ps[k]) THEN DottedSelectorsLoop(ps, k + 1, selectors)
    ELSE IF k - 1 >= Len(selectors) THEN [result |-> <<>>, panicked |-> TRUE]
    ELSE DottedSelectorsLoop(ps, k + 1, [selectors EXCEPT ![k] = ps[k].Name])

\* DottedSelectors of identifiers.go: make([]Selector, 0, len(ps)) has
\* length 0.
DottedSelectors(ps) == DottedSelectorsLoop(ps, 1, <<>>)

\* The loop of the other copy of DottedSelectors: the names are appended.
RECURSIVE DottedSelectorsAppendLoop(_, _, _)
DottedSelectorsAppendLoop(ps, k, selectors) ==
    IF k > Len(ps) THEN [result |-> selectors, panicked |-> FALSE]
    ELSE IF IsIdentifier(ps[k]) THEN DottedSelectorsAppendLoop(ps, k + 1, selectors)
    ELSE DottedSelectorsAppendLoop(ps, k + 1, Append(selectors, ps[k].Name))

DottedSelectorsAppend(ps) == DottedSelectorsAppendLoop(ps, 1, <<>>)

\* The two copies of identifiers.go in the repository.
IdentifiersFiles == {"identifiers.go", "part_004"}

NewAccessorCall(method, file, recv) ==
    [method |-> method, file |-> file, recv |-> recv, pc |-> "entry",
     result |-> <<>>, panicked |-> FALSE, ncalls |-> 0]

AtEntry(c, method) == calls[c].method = method /\ calls[c].pc = "entry"

CallIsIdentifier(c) ==
    /\ AtEntry(c, "IsIdentifier")
    /\ calls' = [calls EXCEPT ![c] =
                   [@ EXCEPT !.result = IsIdentifier(calls[c].recv),
                             !.pc = "done", !.ncalls = 1]]

CallIdentifiers(c) ==
    /\ AtEntry(c, "Identifiers")
    /\ calls' = [calls EXCEPT ![c] =
                   [@ EXCEPT !.result = IF calls[c].file = "identifiers.go"
                                        THEN Identifiers(calls[c].recv)
                                        ELSE IdentifiersAppend(calls[c].recv),
                             !.pc = "done", !.ncalls = 1]]

CallDottedSelectors(c) ==
    /\ AtEntry(c, "DottedSelectors")
    /\ LET r == IF calls[c].file = "identifiers.go"
                THEN DottedSelectors(calls[c].recv)
                ELSE DottedSelectorsAppend(calls[c].recv)
       IN calls' = [calls EXCEPT ![c] =
                      [@ EXCEPT !.result = r.result, !.panicked = r.panicked,
                                !.pc = "done", !.ncalls = 1]]

MaxAccessorCalls == 3

\* ps.Parameters() on a ParsedSQL: it returns the parameters it holds.
CallParsedSQLParameters(c) ==
    /\ AtEntry(c, "ParsedSQL") /\ calls[c].ncalls < MaxAccessorCalls
    /\ calls' = [calls EXCEPT ![c] =
                   [@ EXCEPT !.result = calls[c].recv.parameters,
                             !.ncalls = @ + 1]]

\* ps.Occurrences().Parameters(): Occurrences returns the slice the
\* ParsedSQL holds, and QueryTokens.Parameters sorts its receiver, which
\* shares its elements, before it builds the parameters.
CallOccurrencesParameters(c) ==
    /\ AtEntry(c, "ParsedSQL") /\ calls[c].ncalls < MaxAccessorCalls
    /\ \E sorted \in SortSliceByIndex(calls[c].recv.occurrences) :
          calls' = [calls EXCEPT ![c] =
                      [@ EXCEPT !.recv = [calls[c].recv EXCEPT !.occurrences = sorted],
                                !.result = QueryTokensParameters(sorted),
                                !.ncalls = @ + 1]]

NextAccessors ==
    \/ \E c \in DOMAIN calls : CallIsIdentifier(c)
    \/ \E c \in DOMAIN calls : CallIdentifiers(c)
    \/ \E c \in DOMAIN calls : CallDottedSelectors(c)
    \/ \E c \in DOMAIN calls : CallParsedSQLParameters(c)
    \/ \E c \in DOMAIN calls : CallOccurrencesParameters(c)

MaxParams == 3

\* The names of the parameters of an accessor call: two identifiers, a
\* dotted selector, an indexed one, and one with both.
ParamNames ==
    {<<"a">>, <<"b">>, <<"a", ".", "b">>, <<"a", "[", "0", "]">>,
     <<"a", "[", "0", "]", ".", "b">>}

MaxAccessorPieces == 4

\* The pieces of the texts whose ParsedSQL the accessors are called on.
AccessorPieces == {<<":", "a">>, <<":", "b">>, <<":", "a", ".", "b">>, <<" ">>}

InitAccessors ==
    \/ \E name \in ParamNames, index \in 1..MaxParams :
          calls = <<NewAccessorCall("IsIdentifier", "identifiers.go",
                                    NewParameter(name, index))>>
    \/ \E names \in Texts(ParamNames, MaxParams), file \in IdentifiersFiles :
          \E method \in {"Identifiers", "DottedSelectors"} :
             calls = <<NewAccessorCall(method, file, NewParameters(names))>>
    \/ \E pieces \in Texts(AccessorPieces, MaxAccessorPieces) :
          calls = <<NewAccessorCall("ParsedSQL", "parsed_sql.go",
                                    ParseSQLAlone(Concat(pieces), "dollar").ps)>>

SpecAccessors == InitAccessors /\ [][NextAccessors]_vars

(***************************************************************************)
(* The properties.                                                         *)
(***************************************************************************)
Done(c) == calls[c].pc = "done"

Succeeded(c) == Done(c) /\ calls[c].err = NoErr /\ calls[c].format # NilFormat

\* C1: every iteration of the dispatch loop leaves the cursor strictly
\* greater than it found it, the loop runs at most len(input) iterations,
\* and every call of ParseSQL returns.
C1_Terminates ==
    /\ [][\A c \in DOMAIN calls : InLoop(c) => calls'[c].i > calls[c].i]_vars
    /\ [](\A c \in DOMAIN calls : calls[c].iters <= Len(calls[c].sqlText))
    /\ <>(\A c \in DOMAIN calls : Done(c))

\* A call has returned whose text made consumeOracleQ reject its trigger
\* and left a quote unterminated.
C1_Witness ==
    \E c \in DOMAIN calls :
        /\ Done(c) /\ calls[c].iters >= 2
        /\ \E k \in 1..Len(calls[c].spans) :
              /\ calls[c].spans[k].kind = "oracleq"
              /\ calls[c].spans[k].end = calls[c].spans[k].start + 1
        /\ \E k \in 1..Len(calls[c].spans) :
              /\ calls[c].spans[k].kind \in {"single", "block", "dollar"}
              /\ calls[c].spans[k].end = calls[c].n
              /\ At(calls[c].src, calls[c].n - 1) \notin {"'", "/", "$"}

\* C2 as claimed: a call that returns with no edit recorded has succeeded,
\* its SQL is the input and its parameters and occurrences are empty.
C2_Original ==
    \A c \in DOMAIN calls :
        Done(c) /\ calls[c].format # NilFormat /\ calls[c].edits = <<>> =>
            /\ calls[c].err = NoErr
            /\ calls[c].ps.SQL = calls[c].sqlText
            /\ calls[c].ps.parameters = <<>>
            /\ calls[c].ps.occurrences = <<>>

\* C2, amended: a call whose scan reaches the end of the input without an
\* error and with no edit recorded returns the input as its SQL, byte for
\* byte, and empty parameters and occurrences.
C2_Identity ==
    \A c \in DOMAIN calls :
        Succeeded(c) /\ calls[c].edits = <<>> =>
            /\ calls[c].ps.SQL = calls[c].sqlText
            /\ calls[c].ps.parameters = <<>>
            /\ calls[c].ps.occurrences = <<>>

\* A call succeeded with no edit on a text that has a cast before a name.
C2_Witness ==
    \E c \in DOMAIN calls :
        /\ Succeeded(c) /\ calls[c].edits = <<>>
        /\ \E k \in 1..Len(calls[c].spans) : calls[c].spans[k].kind = "cast"
        /\ \E p \in 0..(calls[c].n - 2) :
              At(calls[c].src, p) = ":" /\ At(calls[c].src, p + 1) = "a"
        /\ calls[c].ps.SQL = calls[c].sqlText

\* The text with the range of every occurrence replaced by the format of
\* its index, byte by byte from offset p.
RECURSIVE Spliced(_, _, _, _)
Spliced(src, occ, f, p) ==
    IF p >= Len(src) THEN <<>>
    ELSE LET starting == {k \in 1..Len(occ) : occ[k].Start = p}
             covering == {k \in 1..Len(occ) : occ[k].Start < p /\ p < occ[k].End}
             piece == IF starting # {}
                      THEN formatFunc(f, occ[CHOOSE k \in starting : TRUE].Index)
                      ELSE IF covering # {} THEN <<>> ELSE <<At(src, p)>>
         IN piece \o Spliced(src, occ, f, p + 1)

\* C3: on success the SQL is the input with the byte range of every
\* occurrence replaced by the format of its index, every other byte
\* unchanged and in place.
C3_Rewrite ==
    \A c \in DOMAIN calls :
        Succeeded(c) =>
            calls[c].ps.SQL =
                Spliced(calls[c].sqlText, calls[c].ps.occurrences, calls[c].format, 0)

\* A call succeeded with two occurrences, text before, between and after
\* them, and replacements longer than the placeholders.
C3_Witness ==
    \E c \in DOMAIN calls :
        /\ Succeeded(c) /\ calls[c].format = "atp"
        /\ Len(calls[c].ps.occurrences) = 2
        /\ calls[c].ps.occurrences[1].Start > 0
        /\ calls[c].ps.occurrences[2].Start > calls[c].ps.occurrences[1].End
        /\ calls[c].ps.occurrences[2].End < calls[c].n
        /\ Len(calls[c].ps.SQL) > calls[c].n

NamesOf(tokens) == {tokens[k].Name : k \in 1..Len(tokens)}

\* The number of distinct names among the first k tokens.
DistinctUpTo(tokens, k) == Cardinality({tokens[j].Name : j \in 1..k})

\* The first token that has the name of the k-th.
FirstOf(tokens, k) ==
    CHOOSE j \in 1..k :
        /\ tokens[j].Name = tokens[k].Name
        /\ \A m \in 1..(j - 1) : tokens[m].Name # tokens[k].Name

\* C4: within a call, every occurrence of a name has the index allocated at
\* the first occurrence of the name, and with it the same replacement; a
\* successful call has exactly one parameter for each distinct name.
C4_SameIndex ==
    \A c \in DOMAIN calls :
        LET tokens == calls[c].tokens
            edits == calls[c].edits
        IN /\ Len(edits) = Len(tokens)
           /\ \A k \in 1..Len(tokens) :
                 LET j == FirstOf(tokens, k) IN
                 /\ tokens[k].Index = tokens[j].Index
                 /\ tokens[j].Index = DistinctUpTo(tokens, j)
                 /\ edits[k].repl = edits[j].repl
           /\ Succeeded(c) =>
                 /\ Len(calls[c].ps.parameters) = Cardinality(NamesOf(calls[c].ps.occurrences))
                 /\ \A name \in NamesOf(calls[c].ps.occurrences) :
                       Cardinality({k \in 1..Len(calls[c].ps.parameters) :
                                       calls[c].ps.parameters[k].Name = name}) = 1

\* A call succeeded whose text has the name a, then b, then a again.
C4_Witness ==
    \E c \in DOMAIN calls :
        /\ Succeeded(c)
        /\ Len(calls[c].ps.occurrences) = 3
        /\ calls[c].ps.occurrences[1].Name = <<"a">>
        /\ calls[c].ps.occurrences[2].Name = <<"b">>
        /\ calls[c].ps.occurrences[3].Name = <<"a">>
        /\ calls[c].ps.occurrences[3].Index = 1
        /\ Len(calls[c].ps.parameters) = 2

\* The names of the tokens in order, each at its first occurrence only.
RECURSIVE FirstOccurrences(_, _)
FirstOccurrences(tokens, k) ==
    IF k > Len(tokens) THEN <<>>
    ELSE IF \E j \in 1..(k - 1) : tokens[j].Name = tokens[k].Name
         THEN FirstOccurrences(tokens, k + 1)
         ELSE <<tokens[k].Name>> \o FirstOccurrences(tokens, k + 1)

\* C5: on success the parameters are the distinct names in the order of
\* their first occurrence, the k-th with index k, and the occurrences are in
\* increasing source offset, each with the index of its name.
C5_Order ==
    \A c \in DOMAIN calls :
        Succeeded(c) =>
            LET params == calls[c].ps.parameters
                occ == calls[c].ps.occurrences
                first == FirstOccurrences(occ, 1)
            IN /\ Len(params) = Len(first)
               /\ \A k \in 1..Len(params) :
                     params[k].Name = first[k] /\ params[k].Index = k
               /\ \A k \in 1..(Len(occ) - 1) :
                     occ[k].Start < occ[k + 1].Start
               /\ \A k \in 1..Len(occ) :
                     /\ At(calls[c].sqlText, occ[k].Start) = ":"
                     /\ \E m \in 1..Len(params) :
                           params[m].Name = occ[k].Name /\ params[m].Index = occ[k].Index

\* A call succeeded on names in the order a, b, a and a third name: the
\* parameters have indices 1, 2, 3 and the occurrences 1, 2, 1, 3.
C5_Witness ==
    \E c \in DOMAIN calls :
        /\ Succeeded(c)
        /\ Len(calls[c].ps.occurrences) = 4
        /\ calls[c].ps.occurrences[1].Name = <<"a">>
        /\ calls[c].ps.occurrences[2].Name = <<"b">>
        /\ calls[c].ps.occurrences[3].Name = <<"a">>
        /\ calls[c].ps.occurrences[4].Name \notin {<<"a">>, <<"b">>}
        /\ [k \in 1..4 |-> calls[c].ps.occurrences[k].Index] = <<1, 2, 1, 3>>
        /\ [k \in 1..3 |-> calls[c].ps.parameters[k].Index] = <<1, 2, 3>>
        /\ Len(calls[c].ps.parameters) = 3

(***************************************************************************)
(* Opacity of the skipped spans.                                           *)
(***************************************************************************)
\* The least offset from p on at which the text has the byte, or -1.
FirstAt(src, p, byte) ==
    LET hits == {k \in p..(Len(src) - 1) : At(src, k) = byte}
    IN IF hits = {} THEN -1 ELSE CHOOSE k \in hits : \A m \in hits : k <= m

\* The offset of the quote that closes an SQL string literal whose content
\* starts at p, a doubled quote being an escaped quote; -1 if there is none.
RECURSIVE LiteralClose(_, _)
LiteralClose(src, p) ==
    IF p >= Len(src) THEN -1
    ELSE IF At(src, p) # "'" THEN LiteralClose(src, p + 1)
    ELSE IF p + 1 < Len(src) /\ At(src, p + 1) = "'" THEN LiteralClose(src, p + 2)
    ELSE p

\* The offset in the rewritten SQL of the byte at offset p of the text.
RECURSIVE Shift(_, _, _, _)
Shift(occ, f, p, k) ==
    IF k > Len(occ) THEN 0
    ELSE (IF occ[k].End <= p
          THEN Len(formatFunc(f, occ[k].Index)) - (occ[k].End - occ[k].Start)
          ELSE 0) + Shift(occ, f, p, k + 1)

OutPos(s, p) == p + Shift(s.ps.occurrences, s.format, p, 1)

\* Nothing in [a, b) of the text was recorded, and on success these bytes
\* are in the rewritten SQL as they are in the text.
Opaque(s, a, b) ==
    /\ \A k \in 1..Len(s.tokens) : s.tokens[k].End <= a \/ s.tokens[k].Start >= b
    /\ \A k \in 1..Len(s.edits) : s.edits[k].end <= a \/ s.edits[k].start >= b
    /\ (s.pc = "done" /\ s.err = NoErr) =>
          /\ \A k \in 1..Len(s.ps.occurrences) :
                s.ps.occurrences[k].End <= a \/ s.ps.occurrences[k].Start >= b
          /\ \A k \in 1..Len(s.ps.parameters) :
                \E m \in 1..Len(s.ps.occurrences) :
                    /\ s.ps.occurrences[m].Name = s.ps.parameters[k].Name
                    /\ (s.ps.occurrences[m].End <= a \/ s.ps.occurrences[m].Start >= b)
          /\ Slice(s.ps.SQL, OutPos(s, a), OutPos(s, b)) = Slice(s.src, a, b)

\* The text has a placeholder at p: a colon, not the first of a cast, and
\* the first byte of a name.
PlaceholderAt(src, p) ==
    /\ p + 1 < Len(src)
    /\ At(src, p) = ":"
    /\ isValidIdentifierStart(At(src, p + 1))

\* On success the placeholder at p is an occurrence and a parameter, and
\* the rewritten SQL has the format of its index in its place.
Rewritten(s, p) ==
    (s.pc = "done" /\ s.err = NoErr) =>
        \E k \in 1..Len(s.ps.occurrences) :
            LET o == s.ps.occurrences[k]
                repl == formatFunc(s.format, o.Index)
            IN /\ o.Start = p
               /\ \E m \in 1..Len(s.ps.parameters) : s.ps.parameters[m].Name = o.Name
               /\ Slice(s.ps.SQL, OutPos(s, p), OutPos(s, p) + Len(repl)) = repl

SpansOf(s, kinds) == {k \in 1..Len(s.spans) : s.spans[k].kind \in kinds}

\* The offset of the byte that closes the quoted span opened at start.
QuoteClose(src, kind, start) ==
    CASE kind = "single" -> LiteralClose(src, start + 1)
      [] kind = "double" -> FirstAt(src, start + 1, "\"")
      [] kind = "backtick" -> FirstAt(src, start + 1, BT)
      [] kind = "bracket" -> FirstAt(src, start + 1, "]")

\* C6: nothing from the opening byte of a single-quoted, double-quoted,
\* backtick or bracket span the dispatcher meets through its closing byte is
\* recorded, these bytes are unchanged in the rewritten SQL, and a
\* placeholder right after the closing byte is rewritten.
C6_QuotedOpaque ==
    \A c \in DOMAIN calls :
        LET s == calls[c] IN
        \A k \in SpansOf(s, {"single", "double", "backtick", "bracket"}) :
            LET close == QuoteClose(s.src, s.spans[k].kind, s.spans[k].start) IN
            close >= 0 =>
                /\ Opaque(s, s.spans[k].start, close + 1)
                /\ PlaceholderAt(s.src, close + 1) => Rewritten(s, close + 1)

\* A call succeeded on a text with a name inside a closed quoted span and a
\* placeholder right after the span.
C6_Witness ==
    \E c \in DOMAIN calls :
        LET s == calls[c] IN
        /\ Succeeded(c)
        /\ \E k \in SpansOf(s, {"single", "double", "backtick", "bracket"}) :
              LET close == QuoteClose(s.src, s.spans[k].kind, s.spans[k].start) IN
              /\ close >= 0
              /\ \E p \in (s.spans[k].start + 1)..(close - 2) : PlaceholderAt(s.src, p)
              /\ PlaceholderAt(s.src, close + 1)
              /\ Len(s.ps.parameters) = 1

\* The offset of the first "*/" from p on, or -1.
BlockClose(src, p) ==
    LET hits == {k \in p..(Len(src) - 2) : At(src, k) = "*" /\ At(src, k + 1) = "/"}
    IN IF hits = {} THEN -1 ELSE CHOOSE k \in hits : \A m \in hits : k <= m

\* C7: nothing in a "--" or "#" comment, up to the next newline or the end
\* of the input, and nothing in a block comment, through the first "*/"
\* after its "/*" or to the end of the input, is recorded or changed; a
\* placeholder right after the newline or right after the "*/" is rewritten.
C7_CommentOpaque ==
    \A c \in DOMAIN calls :
        LET s == calls[c] IN
        /\ \A k \in SpansOf(s, {"dashdash", "hash"}) :
              LET newline == FirstAt(s.src, s.spans[k].start, "\n") IN
              /\ Opaque(s, s.spans[k].start, IF newline >= 0 THEN newline ELSE s.n)
              /\ (newline >= 0 /\ PlaceholderAt(s.src, newline + 1)) =>
                    Rewritten(s, newline + 1)
        /\ \A k \in SpansOf(s, {"block"}) :
              LET close == BlockClose(s.src, s.spans[k].start + 2) IN
              /\ Opaque(s, s.spans[k].start, IF close >= 0 THEN close + 2 ELSE s.n)
              /\ (close >= 0 /\ PlaceholderAt(s.src, close + 2)) =>
                    Rewritten(s, close + 2)

\* A call succeeded on a closed block comment with a name in it and a
\* placeholder right after it.
C7_Witness ==
    \E c \in DOMAIN calls :
        LET s == calls[c] IN
        /\ Succeeded(c)
        /\ \E k \in SpansOf(s, {"block"}) :
              LET close == BlockClose(s.src, s.spans[k].start + 2) IN
              /\ close >= 0
              /\ \E p \in (s.spans[k].start + 2)..(close - 2) : PlaceholderAt(s.src, p)
              /\ PlaceholderAt(s.src, close + 2)
              /\ Len(s.ps.occurrences) = 1

\* The offset of the '$' that ends the opening delimiter of a dollar quote
\* at start: the next '$', with only letters, digits and underscores before
\* it; -1 if the text has no such opening at start.
DollarOpenEnd(src, start) ==
    LET d == FirstAt(src, start + 1, "$") IN
    IF d >= 0 /\ \A p \in (start + 1)..(d - 1) : isLetterDigitOrUnderscore(At(src, p))
    THEN d ELSE -1

\* The offset of the first occurrence of the delimiter from p on, or -1.
DelimiterAt(src, p, delim) ==
    LET hits == {k \in p..(Len(src) - Len(delim)) : Slice(src, k, k + Len(delim)) = delim}
    IN IF hits = {} THEN -1 ELSE CHOOSE k \in hits : \A m \in hits : k <= m

OracleClosing(delim) ==
    LET paired == {<<"<", ">">>, <<"(", ")">>, <<"[", "]">>, <<"{", "}">>}
    IN IF \E pr \in paired : pr[1] = delim
       THEN (CHOOSE pr \in paired : pr[1] = delim)[2]
       ELSE delim

\* The offset of the first closing byte from p on that has a quote right
\* after it, or -1.
OracleClose(src, p, closing) ==
    LET hits == {k \in p..(Len(src) - 2) : At(src, k) = closing /\ At(src, k + 1) = "'"}
    IN IF hits = {} THEN -1 ELSE CHOOSE k \in hits : \A m \in hits : k <= m

\* C9: an Oracle quote q'D ... C' ends at the first closing byte C of its
\* delimiter D that has a quote right after it; nothing in it, names and
\* lone quotes included, is recorded or changed, and a placeholder right
\* after it is rewritten.
C9_OracleOpaque ==
    \A c \in DOMAIN calls :
        LET s == calls[c] IN
        \A k \in SpansOf(s, {"oracleq"}) :
            LET start == s.spans[k].start IN
            (start + 2 < s.n /\ At(s.src, start + 1) = "'") =>
                LET close == OracleClose(s.src, start + 3,
                                         OracleClosing(At(s.src, start + 2)))
                IN close >= 0 =>
                      /\ s.spans[k].end = close + 2
                      /\ Opaque(s, start, close + 2)
                      /\ PlaceholderAt(s.src, close + 2) => Rewritten(s, close + 2)

\* A call succeeded on q'< ... >' with a lone quote and a name in it and a
\* placeholder right after it.
C9_Witness ==
    \E c \in DOMAIN calls :
        LET s == calls[c] IN
        /\ Succeeded(c)
        /\ \E k \in SpansOf(s, {"oracleq"}) :
              LET start == s.spans[k].start
                  close == OracleClose(s.src, start + 3, ">")
              IN /\ start + 2 < s.n
                 /\ At(s.src, start + 1) = "'" /\ At(s.src, start + 2) = "<"
                 /\ close >= 0
                 /\ \E p \in (start + 3)..(close - 2) : PlaceholderAt(s.src, p)
                 /\ \E p \in (start + 3)..(close - 1) : At(s.src, p) = "'"
                 /\ PlaceholderAt(s.src, close + 2)
                 /\ Len(s.ps.occurrences) = 1

\* C10 as claimed: no recorded placeholder has a colon right after its
\* colon, and none has a colon right before its colon.
C10_Original ==
    \A c \in DOMAIN calls :
        LET s == calls[c] IN
        \A k \in 1..Len(s.tokens) :
            /\ At(s.src, s.tokens[k].Start + 1) # ":"
            /\ s.tokens[k].Start > 0 => At(s.src, s.tokens[k].Start - 1) # ":"

\* The end of the run of name bytes that starts at p.
RECURSIVE NameRunEnd(_, _)
NameRunEnd(src, p) ==
    IF p < Len(src) /\ isValidIdentifierChar(At(src, p)) THEN NameRunEnd(src, p + 1) ELSE p

\* C10, amended: a colon the dispatcher meets with a colon right after it
\* is a cast; both colons are passed and no recorded placeholder has a
\* colon right after its colon.  A name right after the cast, as in "::id",
\* is not recorded and is unchanged in the rewritten SQL.  The colons pair
\* from the left: a third colon, as in ":::id", is not part of the cast and
\* the placeholder it starts is recorded and rewritten.
C10_CastOpaque ==
    \A c \in DOMAIN calls :
        LET s == calls[c] IN
        /\ \A k \in 1..Len(s.tokens) : At(s.src, s.tokens[k].Start + 1) # ":"
        /\ \A k \in SpansOf(s, {"cast"}) :
              LET start == s.spans[k].start IN
              /\ s.spans[k].end = start + 2
              /\ Opaque(s, start, NameRunEnd(s.src, start + 2))
              /\ PlaceholderAt(s.src, start + 2) => Rewritten(s, start + 2)

\* A call succeeded on a text with a cast, a name right after it, and a
\* placeholder later that is the only one recorded.
C10_Witness ==
    \E c \in DOMAIN calls :
        LET s == calls[c] IN
        /\ Succeeded(c)
        /\ \E k \in SpansOf(s, {"cast"}) :
              /\ PlaceholderAt(s.src, s.spans[k].start + 1)
              /\ Len(s.ps.occurrences) = 1
              /\ s.ps.occurrences[1].Start > s.spans[k].start + 2

(***************************************************************************)
(* The errors.                                                             *)
(***************************************************************************)
\* C11: a call with a nil format function never enters the scan: it reads
\* no byte, runs no skip routine and records nothing, and when it has
\* returned its error is ErrFormatParamFuncRequired and its ParsedSQL is the
\* zero value, whatever the input.
C11_NilFormat ==
    \A c \in DOMAIN calls :
        LET s == calls[c] IN
        s.format = NilFormat =>
            /\ s.pc \in {"entry", "done"}
            /\ s.i = 0 /\ s.iters = 0 /\ s.spans = <<>>
            /\ s.tokens = <<>> /\ s.edits = <<>> /\ s.fcalls = <<>>
            /\ s.ps = ZeroParsedSQL
            /\ s.pc = "done" => s.err = ErrFormatParamFuncRequired
            /\ s.pc = "entry" => s.err = NoErr

\* A call with a nil format function has returned on a text that is a
\* placeholder.
C11_Witness ==
    \E c \in DOMAIN calls :
        /\ Done(c) /\ calls[c].format = NilFormat
        /\ calls[c].sqlText = <<":", "a">>
        /\ calls[c].err = ErrFormatParamFuncRequired

\* C12: when the dispatcher meets a placeholder whose name fails the
\* validation, the call returns at once with ErrInvalidPlaceholderName
\* carrying the raw name and the offset of its colon; a call with this error
\* has the zero ParsedSQL, also when placeholders were recorded before.
C12_InvalidName ==
    /\ [](\A c \in DOMAIN calls :
            LET s == calls[c] IN
            s.err.kind = "ErrInvalidPlaceholderName" =>
                /\ s.pc = "done"
                /\ s.ps = ZeroParsedSQL
                /\ s.err.offset \in 0..(s.n - 1)
                /\ At(s.src, s.err.offset) = ":"
                /\ s.err.name =
                      Slice(s.src, s.err.offset + 1, NameRunEnd(s.src, s.err.offset + 1))
                /\ ~isValidName(s.err.name))
    /\ [][\A c \in DOMAIN calls :
            LET s == calls[c]
                rawName == Slice(s.src, s.i + 1, NameRunEnd(s.src, s.i + 1))
            IN (InLoop(c) /\ PlaceholderAt(s.src, s.i) /\ ~isValidName(rawName)) =>
                  /\ calls'[c].err = ErrInvalidPlaceholderName(rawName, s.i)
                  /\ calls'[c].pc = "done"
                  /\ calls'[c].ps = ZeroParsedSQL]_vars

\* A call has returned ErrInvalidPlaceholderName for a name that is not the
\* first of its text, after it recorded a valid placeholder.
C12_Witness ==
    \E c \in DOMAIN calls :
        LET s == calls[c] IN
        /\ Done(c) /\ s.err.kind = "ErrInvalidPlaceholderName"
        /\ s.err.offset > 0
        /\ Len(s.tokens) >= 1
        /\ s.tokens[1].End <= s.err.offset
        /\ s.ps = ZeroParsedSQL

(***************************************************************************)
(* The names.                                                              *)
(***************************************************************************)
\* The state after the byte b of the automaton of
\* ident ( '.' ident | '[' digits ']' )*, ident = [A-Za-z_][A-Za-z0-9_]*.
GrammarStep(q, b) ==
    LET letter == b \in LowerAZ \cup UpperAZ \cup {"_"}
        digit == b \in Digits09
    IN CASE q = "start" -> IF letter THEN "ident" ELSE "fail"
         [] q = "ident" -> IF letter \/ digit THEN "ident"
                           ELSE IF b = "." THEN "dot"
                           ELSE IF b = "[" THEN "open" ELSE "fail"
         [] q = "dot" -> IF letter THEN "ident" ELSE "fail"
         [] q = "open" -> IF digit THEN "digits" ELSE "fail"
         [] q = "digits" -> IF digit THEN "digits"
                            ELSE IF b = "]" THEN "close" ELSE "fail"
         [] q = "close" -> IF b = "." THEN "dot"
                           ELSE IF b = "[" THEN "open" ELSE "fail"
         [] OTHER -> "fail"

RECURSIVE GrammarRun(_, _, _)
GrammarRun(q, name, k) ==
    IF k > Len(name) THEN q ELSE GrammarRun(GrammarStep(q, name[k]), name, k + 1)

InGrammar(name) == GrammarRun("start", name, 1) \in {"ident", "close"}

\* C13: the name of a placeholder is the whole run of letters, digits,
\* '_', '.', '[' and ']' after its colon; the placeholder is recorded with
\* that run as its name if the run is in the grammar
\* ident ( '.' ident | '[' digits ']' )*, and the call fails with
\* ErrInvalidPlaceholderName carrying that run if it is not.
C13_NameGrammar ==
    /\ [](\A c \in DOMAIN calls :
            LET s == calls[c] IN
            /\ \A k \in 1..Len(s.tokens) :
                  /\ s.tokens[k].Name =
                        Slice(s.src, s.tokens[k].Start + 1,
                              NameRunEnd(s.src, s.tokens[k].Start + 1))
                  /\ s.tokens[k].End = NameRunEnd(s.src, s.tokens[k].Start + 1)
                  /\ InGrammar(s.tokens[k].Name)
            /\ s.err.kind = "ErrInvalidPlaceholderName" =>
                  /\ s.err.name =
                        Slice(s.src, s.err.offset + 1, NameRunEnd(s.src, s.err.offset + 1))
                  /\ ~InGrammar(s.err.name))
    /\ [][\A c \in DOMAIN calls :
            LET s == calls[c]
                run == Slice(s.src, s.i + 1, NameRunEnd(s.src, s.i + 1))
            IN (InLoop(c) /\ PlaceholderAt(s.src, s.i)) =>
                  IF InGrammar(run)
                  THEN /\ calls'[c].err = NoErr
                       /\ Len(calls'[c].tokens) = Len(s.tokens) + 1
                       /\ calls'[c].tokens[Len(s.tokens) + 1].Name = run
                       /\ calls'[c].tokens[Len(s.tokens) + 1].Start = s.i
                       /\ calls'[c].i = s.i + 1 + Len(run)
                  ELSE /\ calls'[c].err = ErrInvalidPlaceholderName(run, s.i)
                       /\ calls'[c].tokens = s.tokens]_vars

\* A call succeeded on the placeholder :a[0][0].a, the whole run its name.
C13_Witness ==
    \E c \in DOMAIN calls :
        LET s == calls[c] IN
        /\ Succeeded(c)
        /\ Len(s.ps.occurrences) = 1
        /\ s.ps.occurrences[1].Name = <<"a", "[", "0", "]", "[", "0", "]", ".", "a">>
        /\ s.n = 10
        /\ s.ps.parameters = <<NewParameter(s.ps.occurrences[1].Name, 1)>>

(***************************************************************************)
(* Stray colons.                                                           *)
(***************************************************************************)
\* The byte at p is an ASCII letter or an underscore.
NameStartAt(src, p) ==
    p < Len(src) /\ At(src, p) \in LowerAZ \cup UpperAZ \cup {"_"}

\* The dispatcher at a colon takes one step that passes that colon only,
\* records nothing, calls no format function and raises no error.
PassesOneByte(c) ==
    /\ calls'[c].i = calls[c].i + 1
    /\ calls'[c].pc = "scan"
    /\ calls'[c].err = NoErr
    /\ calls'[c].tokens = calls[c].tokens
    /\ calls'[c].edits = calls[c].edits
    /\ calls'[c].fcalls = calls[c].fcalls

\* p is inside a span some skip routine of the kinds passed.
InSpan(s, kinds, p) ==
    \E k \in SpansOf(s, kinds) : s.spans[k].start <= p /\ p < s.spans[k].end

SkipKinds ==
    {"dashdash", "hash", "block", "single", "double", "backtick", "bracket",
     "dollar", "oracleq"}

\* The colon at p and what follows it, the run of name bytes or the one
\* byte, are not recorded and are unchanged in the rewritten SQL.
StrayUnchanged(s, p) ==
    LET run == NameRunEnd(s.src, p + 1)
        next == IF p + 2 <= s.n THEN p + 2 ELSE s.n
    IN Opaque(s, p, IF run > next THEN run ELSE next)

C15_DigitName ==
    \A c \in DOMAIN calls :
        LET s == calls[c] IN
        (/\ Done(c) /\ s.format # NilFormat
         /\ \E p \in 0..(s.i - 1) :
               /\ p + 1 < s.n
               /\ At(s.src, p) = ":" /\ At(s.src, p + 1) \in Digits09
               /\ ~InSpan(s, SkipKinds \cup {"cast"}, p)) =>
            s.err.kind = "ErrInvalidPlaceholderName"

(***************************************************************************)
(* Unterminated spans.                                                     *)
(***************************************************************************)
\* The span the dispatcher met at start has no end in the text: a quoted
\* span without its closing byte (in a single-quoted one a doubled quote is
\* an escaped quote and closes nothing), a block comment without "*/", a
\* dollar quote without a second delimiter, an Oracle quote q'D without the
\* closing byte of D and a quote after it.
Unterminated(src, kind, start) ==
    CASE kind \in {"single", "double", "backtick", "bracket"} ->
            QuoteClose(src, kind, start) < 0
      [] kind = "block" -> BlockClose(src, start + 2) < 0
      [] kind = "dollar" ->
            LET d == DollarOpenEnd(src, start) IN
            d >= 0 /\ DelimiterAt(src, d + 1, Slice(src, start, d + 1)) < 0
      [] kind = "oracleq" ->
            /\ start + 2 < Len(src) /\ At(src, start + 1) = "'"
            /\ OracleClose(src, start + 3, OracleClosing(At(src, start + 2))) < 0
      [] OTHER -> FALSE

\* C16: the skip routine entered at an unterminated span leaves the cursor
\* at the end of the input; the call has no error, nothing from the opening
\* marker on is recorded, and on success the placeholders recorded before
\* the span are rewritten.
C16_Unterminated ==
    \A c \in DOMAIN calls :
        LET s == calls[c] IN
        \A k \in 1..Len(s.spans) :
            Unterminated(s.src, s.spans[k].kind, s.spans[k].start) =>
                /\ s.spans[k].end = s.n
                /\ s.err = NoErr
                /\ Opaque(s, s.spans[k].start, s.n)
                /\ \A t \in 1..Len(s.tokens) :
                      s.tokens[t].End <= s.spans[k].start => Rewritten(s, s.tokens[t].Start)

(***************************************************************************)
(* The lists of the result and of the scan.                                *)
(***************************************************************************)
\* Some name is the name of two of the tokens.
NameRepeats(tokens) ==
    \E j, k \in 1..Len(tokens) : j < k /\ tokens[j].Name = tokens[k].Name

\* C17: a successful result has at least as many occurrences as
\* parameters, and as many exactly when no name occurs twice.
C17_Lengths ==
    \A c \in DOMAIN calls :
        Succeeded(c) =>
            LET occ == calls[c].ps.occurrences
                params == calls[c].ps.parameters
            IN /\ Len(occ) >= Len(params)
               /\ (Len(occ) = Len(params)) <=> ~NameRepeats(occ)

\* A call succeeded with three occurrences of two names.
C17_Witness ==
    \E c \in DOMAIN calls :
        /\ Succeeded(c)
        /\ Len(calls[c].ps.occurrences) = 3
        /\ Len(calls[c].ps.parameters) = 2
        /\ NameRepeats(calls[c].ps.occurrences)

\* C18: in every state of a call the edits and the tokens are as many, the
\* k-th edit has the start and the end of the k-th token, every token is in
\* the bounds of the input with Raw the bytes of its range, a colon and then
\* its Name, and each starts at or after the end of the one before, so that
\* starts and ends increase strictly.
C18_Spans ==
    \A c \in DOMAIN calls :
        LET s == calls[c] IN
        /\ Len(s.edits) = Len(s.tokens)
        /\ \A k \in 1..Len(s.tokens) :
              LET t == s.tokens[k] IN
              /\ s.edits[k].start = t.Start /\ s.edits[k].end = t.End
              /\ 0 <= t.Start /\ t.Start < t.End /\ t.End <= Len(s.sqlText)
              /\ t.Raw = Slice(s.sqlText, t.Start, t.End)
              /\ t.Raw = <<":">> \o t.Name
              /\ k > 1 =>
                    /\ t.Start >= s.tokens[k - 1].End
                    /\ t.Start > s.tokens[k - 1].Start
                    /\ t.End > s.tokens[k - 1].End
                    /\ s.edits[k].start >= s.edits[k - 1].end

\* A call in the middle of its scan has recorded two placeholders, the
\* second right after the first, and a third after a gap.
C18_Witness ==
    \E c \in DOMAIN calls :
        LET s == calls[c] IN
        /\ s.pc = "scan" /\ s.i < s.n
        /\ Len(s.tokens) = 3 /\ Len(s.edits) = 3
        /\ s.tokens[2].Start = s.tokens[1].End
        /\ s.tokens[3].Start > s.tokens[2].End

(***************************************************************************)
(* Independence of the calls.                                              *)
(***************************************************************************)
\* C19: a step of one call changes nothing of another call; a call that has
\* returned, whatever ran between its steps, has the result and the record
\* of the same call run alone; and in every call the indices are allocated
\* from 1 in the order of the call's own names.
C19_Independent ==
    /\ [][\E c \in DOMAIN calls :
            /\ DOMAIN calls' = DOMAIN calls
            /\ \A d \in DOMAIN calls \ {c} : calls'[d] = calls[d]]_vars
    /\ [](\A c \in DOMAIN calls :
            LET s == calls[c] IN
            /\ Done(c) =>
                  LET alone == ParseSQLAlone(s.sqlText, s.format) IN
                  /\ s.ps = alone.ps
                  /\ s.err = alone.err
                  /\ s = alone
            /\ \A k \in 1..Len(s.tokens) :
                  s.tokens[k].Index = DistinctUpTo(s.tokens, FirstOf(s.tokens, k)))

\* Two calls are in their scans at once: the first has given the second
\* name of its text the index 2, the second has given the same name, the
\* first of its text, the index 1 and has not reached its end.
C19_Witness ==
    /\ Len(calls) = 2
    /\ calls[1].pc = "scan" /\ calls[2].pc = "scan"
    /\ Len(calls[1].tokens) = 2 /\ Len(calls[2].tokens) = 1
    /\ calls[1].tokens[2].Name = calls[2].tokens[1].Name
    /\ calls[1].tokens[2].Index = 2
    /\ calls[2].tokens[1].Index = 1
    /\ calls[2].i < calls[2].n

(***************************************************************************)
(* The calls of the format function.                                       *)
(***************************************************************************)
\* C20: the format function is called in a step of the dispatcher at a
\* placeholder and in no other step, once in such a step; so the calls are
\* one for each recorded placeholder in source order, each with the index
\* of its placeholder, and on success the value returned by the k-th call
\* is in the rewritten SQL at the place of the k-th occurrence.
C20_FormatCalls ==
    /\ [][\A c \in DOMAIN calls :
            calls'[c].fcalls # calls[c].fcalls =>
                /\ InLoop(c) /\ PlaceholderAt(calls[c].src, calls[c].i)
                /\ Len(calls'[c].fcalls) = Len(calls[c].fcalls) + 1
                /\ SubSeq(calls'[c].fcalls, 1, Len(calls[c].fcalls)) = calls[c].fcalls
                /\ Len(calls'[c].tokens) = Len(calls[c].tokens) + 1
                /\ calls'[c].tokens[Len(calls'[c].tokens)].Start = calls[c].i]_vars
    /\ [](\A c \in DOMAIN calls :
            LET s == calls[c] IN
            /\ Len(s.fcalls) = Len(s.tokens)
            /\ \A k \in 1..Len(s.fcalls) :
                  /\ s.fcalls[k] = s.tokens[k].Index
                  /\ s.fcalls[k] >= 1
                  /\ s.edits[k].repl = formatFunc(s.format, s.fcalls[k])
            /\ Succeeded(c) =>
                  LET occ == s.ps.occurrences IN
                  /\ Len(s.fcalls) = Len(occ)
                  /\ \A k \in 1..Len(occ) :
                        LET repl == formatFunc(s.format, s.fcalls[k]) IN
                        /\ s.fcalls[k] = occ[k].Index
                        /\ k > 1 => occ[k - 1].Start < occ[k].Start
                        /\ Slice(s.ps.SQL, OutPos(s, occ[k].Start),
                                 OutPos(s, occ[k].Start) + Len(repl)) = repl)

\* A call succeeded on a text with a cast, the names a, b and a again, and
\* a stray colon at its end: the format function was called with 1, 2, 1.
C20_Witness ==
    \E c \in DOMAIN calls :
        LET s == calls[c] IN
        /\ Succeeded(c)
        /\ s.fcalls = <<1, 2, 1>>
        /\ [k \in 1..3 |-> s.ps.occurrences[k].Name] = <<<<"a">>, <<"b">>, <<"a">>>>
        /\ SpansOf(s, {"cast"}) # {}
        /\ s.ps.occurrences[3].End = s.n - 1 /\ At(s.src, s.n - 1) = ":"

\* A name that is a bare identifier: it has no dot and no bracketed index.
BareIdentifier(name) == \A k \in 1..Len(name) : name[k] \notin {".", "[", "]"}

ReturnedFrom(c, method) == calls[c].method = method /\ calls[c].pc = "done"

\* C21: Parameter.IsIdentifier() is true exactly when the name is a bare
\* identifier, with neither a dot nor a bracketed index.
C21_IsIdentifier ==
    \A c \in DOMAIN calls :
       ReturnedFrom(c, "IsIdentifier") =>
          (calls[c].result <=> BareIdentifier(calls[c].recv.Name))

\* The names of the parameters whose IsIdentifier() is wanted, in
\* their order.
RECURSIVE NamesWhere(_, _, _)
NamesWhere(ps, k, wanted) ==
    IF k > Len(ps) THEN <<>>
    ELSE (IF IsIdentifier(ps[k]) = wanted THEN <<ps[k].Name>> ELSE <<>>)
         \o NamesWhere(ps, k + 1, wanted)

\* C22: Parameters.Identifiers() returns exactly the names of the parameters
\* for which IsIdentifier() is true, in their order, and nothing else: no
\* empty string stands for a parameter that was skipped.
C22_Identifiers ==
    \A c \in DOMAIN calls :
       ReturnedFrom(c, "Identifiers") =>
          calls[c].result = NamesWhere(calls[c].recv, 1, TRUE)

\* C30: Parameters.DottedSelectors() completes without failing and returns
\* exactly the names of the parameters for which IsIdentifier() is false,
\* in their order.
C30_DottedSelectors ==
    \A c \in DOMAIN calls :
       ReturnedFrom(c, "DottedSelectors") =>
          /\ ~calls[c].panicked
          /\ calls[c].result = NamesWhere(calls[c].recv, 1, FALSE)

\* C29: no call of an accessor of a ParsedSQL changes the list that
\* Occurrences() returns, which is in the order of the scan.
C29_OccurrencesUnchanged ==
    [][\A c \in DOMAIN calls :
          calls[c].method = "ParsedSQL" =>
             calls'[c].recv.occurrences = calls[c].recv.occurrences]_vars

\* The offset where the run of whitespace that starts at p ends.
RECURSIVE SpaceRunEnd(_, _)
SpaceRunEnd(src, p) ==
    IF p < Len(src) /\ At(src, p) \in SpaceBytes THEN SpaceRunEnd(src, p + 1) ELSE p

\* The 'q' at start does not start an Oracle quote: it is the last byte, or
\* the next byte is neither a quote nor a space, or the whitespace after it
\* is not followed by a quote.
NotOracleStart(src, start) ==
    \/ start + 1 >= Len(src)
    \/ At(src, start + 1) \notin {"'", " "}
    \/ LET e == SpaceRunEnd(src, start + 1) IN e >= Len(src) \/ At(src, e) # "'"

\* C23: consumeOracleQ entered at a 'q' or 'Q' that does not start an Oracle
\* quote returns with the cursor at the entry offset plus one, and a
\* placeholder right after the 'q', or after the whitespace that follows
\* it, is rewritten.
C23_RejectedQ ==
    \A c \in DOMAIN calls :
        LET s == calls[c] IN
        \A k \in SpansOf(s, {"oracleq"}) :
            LET start == s.spans[k].start
                e == SpaceRunEnd(s.src, start + 1)
            IN NotOracleStart(s.src, start) =>
                  /\ s.spans[k].end = start + 1
                  /\ PlaceholderAt(s.src, start + 1) => Rewritten(s, start + 1)
                  /\ PlaceholderAt(s.src, e) => Rewritten(s, e)

\* A call succeeded on a text where a 'q' is followed by a space, a tab and
\* a placeholder, which is its one occurrence.
C23_Witness ==
    \E c \in DOMAIN calls :
        LET s == calls[c] IN
        /\ Succeeded(c)
        /\ \E k \in SpansOf(s, {"oracleq"}) :
              LET start == s.spans[k].start IN
              /\ start + 4 < s.n
              /\ At(s.src, start + 1) = " " /\ At(s.src, start + 2) = "\t"
              /\ PlaceholderAt(s.src, start + 3)
              /\ s.spans[k].end = start + 1
              /\ Len(s.ps.occurrences) = 1
              /\ s.ps.occurrences[1].Start = start + 3

\* C24: the Oracle-quote skip activates whenever 'q' or 'Q' is followed by
\* an optional run of whitespace of any kind and then a quote: the whole
\* quote, through the closing byte of its delimiter and the quote after it,
\* is one span, and nothing in it is recorded or changed.
C24_SpaceBeforeQuote ==
    \A c \in DOMAIN calls :
        LET s == calls[c] IN
        \A k \in SpansOf(s, {"oracleq"}) :
            LET start == s.spans[k].start
                e == SpaceRunEnd(s.src, start + 1)
            IN (e + 1 < s.n /\ At(s.src, e) = "'") =>
                  LET close == OracleClose(s.src, e + 2,
                                           OracleClosing(At(s.src, e + 1)))
                  IN close >= 0 =>
                        /\ s.spans[k].end = close + 2
                        /\ Opaque(s, start, close + 2)

\* C25: consumeSingleQuoted, entered at an opening quote, returns with the
\* cursor just past the first quote that is not the first half of a doubled
\* quote, or at the end of the input if there is none.
C25_EscapedQuote ==
    \A c \in DOMAIN calls :
        LET s == calls[c] IN
        \A k \in SpansOf(s, {"single"}) :
            LET close == LiteralClose(s.src, s.spans[k].start + 1) IN
            s.spans[k].end = IF close >= 0 THEN close + 1 ELSE s.n

\* The offset of the first byte after the '$' at start that is neither a
\* tag byte nor '$' and comes before the next '$', or -1.
BadTagByte(src, start) ==
    LET d == FirstAt(src, start + 1, "$")
        lim == IF d >= 0 THEN d ELSE Len(src)
        bad == {p \in (start + 1)..(lim - 1) : ~isLetterDigitOrUnderscore(At(src, p))}
    IN IF bad = {} THEN -1 ELSE CHOOSE p \in bad : \A m \in bad : p <= m

\* C26: consumeDollarQuoted entered at a '$' ends at the entry offset plus
\* one when a byte that is neither a tag byte nor '$' comes before the
\* opener's closing '$', and a placeholder at that byte, or right after it
\* when it is a space, is rewritten; otherwise it ends just past the first later occurrence of the
\* same delimiter, or at the end of the input when there is none.
C26_DollarCursor ==
    \A c \in DOMAIN calls :
        LET s == calls[c] IN
        \A k \in SpansOf(s, {"dollar"}) :
            LET start == s.spans[k].start
                b == BadTagByte(s.src, start)
                d == FirstAt(s.src, start + 1, "$")
                delim == Slice(s.src, start, d + 1)
                close == IF d >= 0 THEN DelimiterAt(s.src, d + 1, delim) ELSE -1
            IN IF b >= 0
               THEN /\ s.spans[k].end = start + 1
                    /\ PlaceholderAt(s.src, b) => Rewritten(s, b)
                    /\ (At(s.src, b) = " " /\ PlaceholderAt(s.src, b + 1)) =>
                          Rewritten(s, b + 1)
               ELSE s.spans[k].end = IF close >= 0 THEN close + Len(delim) ELSE s.n

\* A call succeeded on a text where a '$' and a tag byte are followed by a
\* space and a placeholder, which is its one occurrence.
C26_Witness ==
    \E c \in DOMAIN calls :
        LET s == calls[c] IN
        /\ Succeeded(c)
        /\ \E k \in SpansOf(s, {"dollar"}) :
              LET start == s.spans[k].start
                  b == BadTagByte(s.src, start)
              IN /\ b = start + 2 /\ At(s.src, b) = " "
                 /\ PlaceholderAt(s.src, b + 1)
                 /\ s.spans[k].end = start + 1
                 /\ Len(s.ps.occurrences) = 1
                 /\ s.ps.occurrences[1].Start = b + 1

(***************************************************************************)
(* The cursor and the reads of the text.                                   *)
(***************************************************************************)
\* The values the cursor takes in one iteration from the state s: the value
\* at its start and the value of every assignment, in order.
CursorValues(s) ==
    LET sets == SelectSeq(IterationTrace(s), LAMBDA e : e.op = "set")
    IN <<s.i>> \o [k \in 1..Len(sets) |-> sets[k].lo]

\* Every step of the loop leaves the cursor where the last assignment of
\* its iteration put it.
CursorAgrees ==
    \A c \in DOMAIN calls :
        (InLoop(c) /\ calls'[c] # calls[c]) =>
            LET v == CursorValues(calls[c]) IN calls'[c].i = v[Len(v)]

\* C27 as claimed: no assignment in an iteration of the loop sets the
\* cursor to a value lower than the one it held just before.
C27_Original ==
    \A c \in DOMAIN calls :
        InLoop(c) =>
            LET v == CursorValues(calls[c]) IN
            \A k \in 1..(Len(v) - 1) : v[k + 1] >= v[k]

\* The '$' or 'q' at the cursor of s is one its routine rejects.
Rejected(s) ==
    \/ At(s.src, s.i) = "$" /\ BadTagByte(s.src, s.i) >= 0
    \/ At(s.src, s.i) \in {"q", "Q"} /\ NotOracleStart(s.src, s.i)

\* C27: no assignment in an iteration of the loop lowers the cursor, but
\* the last one of a rejection path of consumeDollarQuoted or
\* consumeOracleQ, which sets it to the entry offset plus one; the cursor is
\* never below its value at the start of the iteration and ends above it.
C27_Monotonic ==
    /\ [](\A c \in DOMAIN calls :
             InLoop(c) =>
                LET s == calls[c]
                    v == CursorValues(s)
                IN /\ v[Len(v)] > s.i
                   /\ \A k \in 1..(Len(v) - 1) :
                         \/ v[k + 1] >= v[k]
                         \/ /\ Rejected(s)
                            /\ k + 1 = Len(v)
                            /\ v[k + 1] = s.i + 1)
    /\ [][CursorAgrees]_vars

\* The dispatcher is at a '$' or a 'q' that its routine rejects after it
\* moved the cursor forward, setting it back to the entry offset plus one,
\* and the routine it ran last rejected a '$' or a 'q' as well.
C27_Witness ==
    \E c \in DOMAIN calls :
        LET s == calls[c]
            v == CursorValues(s)
        IN /\ InLoop(c) /\ Rejected(s)
           /\ Len(v) >= 4
           /\ v[Len(v) - 1] > s.i + 1
           /\ v[Len(v)] = s.i + 1
           /\ Len(s.spans) > 0
           /\ s.spans[Len(s.spans)].kind \in {"dollar", "oracleq"}
           /\ s.spans[Len(s.spans)].end = s.spans[Len(s.spans)].start + 1

InBounds(e, n) ==
    CASE e.op = "set" -> 0 <= e.lo /\ e.lo <= n
      [] e.op = "read" -> 0 <= e.lo /\ e.lo < n
      [] e.op = "slice" -> 0 <= e.lo /\ e.lo <= e.hi /\ e.hi <= n

AllInBounds(events, n) == \A k \in 1..Len(events) : InBounds(events[k], n)

\* C28: the cursor is always between 0 and the length of the input, and
\* every byte read and every slice taken by the dispatcher, the skip
\* routines, the recogniser and buildSQL is inside the input.
C28_InBounds ==
    /\ [](\A c \in DOMAIN calls :
             LET s == calls[c] IN
             /\ 0 <= s.i /\ s.i <= s.n
             /\ \A k \in 1..Len(s.spans) :
                   0 <= s.spans[k].end /\ s.spans[k].end <= s.n
             /\ InLoop(c) => AllInBounds(IterationTrace(s), s.n)
             /\ (s.pc = "scan" /\ s.i >= s.n) =>
                   AllInBounds(buildSQLTrace(s.src, s.edits, 1, 0), s.n))
    /\ [][CursorAgrees]_vars

\* The dispatcher is at a block comment that is not closed and ends with
\* "**": the loop of consumeBlockComment reads the last byte of the text,
\* as the byte after a '*', and nothing after it.
C28_Witness ==
    \E c \in DOMAIN calls :
        LET s == calls[c] IN
        /\ InLoop(c)
        /\ s.i + 3 < s.n
        /\ At(s.src, s.i) = "/" /\ At(s.src, s.i + 1) = "*"
        /\ At(s.src, s.n - 2) = "*" /\ At(s.src, s.n - 1) = "*"
        /\ BlockClose(s.src, s.i + 2) < 0
        /\ \E k \in 1..Len(IterationTrace(s)) : IterationTrace(s)[k] = ByteRead(s.n - 1)
        /\ ~\E k \in 1..Len(IterationTrace(s)) : IterationTrace(s)[k] = ByteRead(s.n)

====
